---- MODULE Spec2Model ----
(***************************************************************************)
(* Counseling topic routing of Mind-Chat: CounselingTopicRouter on top of  *)
(* TopicRetriever and EmbeddingProvider, driven by LLMWorker.run.          *)
(*                                                                         *)
(* Numbers.  Distances are counted in tenths (1.1 is 11) and scores in     *)
(* units of 1/ScoreScale (1.0 is 110), so that (threshold - distance) /    *)
(* threshold is exact for every distance threshold that divides ScoreScale.*)
(* Python's None is the string NONE; Truthy is Python's truth test on an   *)
(* optional string.                                                        *)
(***************************************************************************)
EXTENDS Integers, Sequences, FiniteSets, TLC

VARIABLES
    cfg,        \* TopicRoutingConfig of the router instance
    state,      \* the conversation's TopicState (scores, selected_topic, turns)
    origin,     \* the TopicState the lineage started from
    router,     \* CounselingTopicRouter: _retriever created?, _init_error
    retriever,  \* TopicRetriever: _collection opened?, _init_error
    embedder,   \* EmbeddingProvider: _embedder loaded?, _init_error
    warnings,   \* number of "Topic routing disabled" warnings logged so far
    base,       \* the system prompt the application passes as base_prompt
    disabled,   \* a dependency failure has made build_prompt degrade before
    pc,         \* "idle" | "finished" | "failed": signal emitted by the worker
    last,       \* what the LLMWorker.run in flight did
    load_failure, \* the latest failed model load seen by a direct caller of the provider, if any
    threads,    \* per thread inside EmbeddingProvider.encode: position and locals
    lock,       \* EmbeddingProvider._lock: 0 when free, else the thread holding it
    loads,      \* the loader calls made by the threads, in order: TRUE for a model returned
    opens,      \* the TopicRetriever instance of each store opened by a thread, in order
    ledger      \* history of the conversation: what its build_prompt calls retrieved

vars == <<cfg, state, origin, router, retriever, embedder, warnings, base, disabled, pc, last,
          load_failure, threads, lock, loads, opens, ledger>>

----------------------------------------------------------------------------
\* Bounds of the model

MaxTurns == 2
MaxRaw == 2
MaxWarnings == 2
NumThreads == 2
MaxCalls == 1

\* units of score per 1.0
ScoreScale == 110

NONE == "<None>"

Truthy(s) == s # NONE /\ s # ""

Max(a, b) == IF a >= b THEN a ELSE b

----------------------------------------------------------------------------
\* Data

Topics == {"anxiety", "sleep", "ghost"}

\* prompt_catalog.SYSTEM_PROMPT_EXAMPLES.get(topic, ""): "ghost" is a label
\* the index can return that has no fragment
CatalogGet(topic) ==
    CASE topic = "anxiety" -> "ANXIETY-FRAGMENT"
      [] topic = "sleep" -> "SLEEP-FRAGMENT"
      [] OTHER -> ""

\* TopicRoutingConfig: the defaults, and variants that put the thresholds on
\* the sums the distances below can produce
DefaultConfig ==
    [min_user_turns |-> 2, distance_threshold |-> 11, score_threshold |-> 132,
     margin_threshold |-> 44, top_k |-> 3]

Configs ==
    { DefaultConfig,
      [min_user_turns |-> 1, distance_threshold |-> 11, score_threshold |-> 110,
       margin_threshold |-> 60, top_k |-> 1],
      [min_user_turns |-> 2, distance_threshold |-> 10, score_threshold |-> 44,
       margin_threshold |-> 0, top_k |-> 2],
      [min_user_turns |-> 1, distance_threshold |-> 0, score_threshold |-> 0,
       margin_threshold |-> 0, top_k |-> 3] }

EmptyState == [scores |-> <<>>, selected_topic |-> NONE, turns |-> 0]

\* TopicState values a conversation can start with: a new conversation, and
\* conversations restored by Conversation.from_dict
InitialStates ==
    { EmptyState,
      [scores |-> <<[topic |-> "anxiety", score |-> 190]>>,
       selected_topic |-> "anxiety", turns |-> 2],
      [scores |-> <<[topic |-> "ghost", score |-> 220]>>,
       selected_topic |-> "ghost", turns |-> 1],
      [scores |-> <<[topic |-> "sleep", score |-> 110]>>,
       selected_topic |-> "", turns |-> 1] }

BasePrompts == {NONE, "", "BASE"}

\* message lists: (role, content) pairs, oldest first
MessageLists ==
    { <<>>,
      <<[role |-> "assistant", content |-> "hi"]>>,
      <<[role |-> "user", content |-> "hello"], [role |-> "assistant", content |-> "hi"]>>,
      <<[role |-> "user", content |-> "hello"], [role |-> "user", content |-> "  "]>>,
      <<[role |-> "user", content |-> "hello"], [role |-> "user", content |-> ""],
        [role |-> "assistant", content |-> "hi"]>> }

\* raw neighbours of the index: a topic label ("" when the metadata has none)
\* and an optional distance in tenths (<<>> is a missing distance)
RawEntries ==
    { [topic |-> "anxiety", dist |-> <<0>>], [topic |-> "ghost", dist |-> <<0>>],
      [topic |-> "anxiety", dist |-> <<6>>], [topic |-> "sleep", dist |-> <<6>>],
      [topic |-> "sleep", dist |-> <<11>>] }

\* the index returns its neighbours by increasing distance
Sorted(raw) ==
    \A i, j \in 1..Len(raw) :
        (i < j /\ raw[i].dist # <<>> /\ raw[j].dist # <<>>) => raw[i].dist[1] <= raw[j].dist[1]

RawLists == {raw \in UNION {[1..n -> RawEntries] : n \in 0..MaxRaw} : Sorted(raw)}

----------------------------------------------------------------------------
\* topic_router.py: the pure helpers

\* scores is a dict in insertion order: a sequence of (topic, score) entries
HasTopic(scores, topic) == \E i \in 1..Len(scores) : scores[i].topic = topic

\* dict.get(topic, 0.0)
ScoreOf(scores, topic) ==
    IF HasTopic(scores, topic)
    THEN (CHOOSE e \in {scores[i] : i \in 1..Len(scores)} : e.topic = topic).score
    ELSE 0

\* scores[topic] = value
SetScore(scores, topic, value) ==
    IF HasTopic(scores, topic)
    THEN [i \in 1..Len(scores) |->
            IF scores[i].topic = topic THEN [topic |-> topic, score |-> value] ELSE scores[i]]
    ELSE Append(scores, [topic |-> topic, score |-> value])

\* variant: 1 - distance, the division by the threshold forgotten
_distance_to_score_unnormalised(distance, threshold) ==
    IF threshold <= 0 THEN 0
    ELSE Max(0, ScoreScale - (distance * ScoreScale) \div 10)

\* variant: the guard of line 155 tests threshold == 0
_distance_to_score_zero_guard(distance, threshold) ==
    IF threshold = 0 THEN 0
    ELSE Max(0, ((threshold - distance) * ScoreScale) \div threshold)

_distance_to_score(distance, threshold) ==
    IF threshold <= 0 THEN 0
    ELSE Max(0, ((threshold - distance) * ScoreScale) \div threshold)

\* variant: line 148 skips negative increments only
RECURSIVE AccumulateZeroIncrements(_, _, _)
AccumulateZeroIncrements(updated, matches, distance_threshold) ==
    IF matches = <<>> THEN updated
    ELSE LET match == Head(matches)
             increment == _distance_to_score(match.distance, distance_threshold)
         IN  AccumulateZeroIncrements(
                 IF increment < 0 THEN updated
                 ELSE SetScore(updated, match.topic, ScoreOf(updated, match.topic) + increment),
                 Tail(matches), distance_threshold)

\* variant: line 150 assigns the increment instead of adding it
RECURSIVE AccumulateOverwriting(_, _, _)
AccumulateOverwriting(updated, matches, distance_threshold) ==
    IF matches = <<>> THEN updated
    ELSE LET match == Head(matches)
             increment == _distance_to_score(match.distance, distance_threshold)
         IN  AccumulateOverwriting(
                 IF increment <= 0 THEN updated
                 ELSE SetScore(updated, match.topic, increment),
                 Tail(matches), distance_threshold)

RECURSIVE AccumulateFrom(_, _, _)
AccumulateFrom(updated, matches, distance_threshold) ==
    IF matches = <<>> THEN updated
    ELSE LET match == Head(matches)
             increment == _distance_to_score(match.distance, distance_threshold)
         IN  AccumulateFrom(
                 IF increment <= 0 THEN updated
                 ELSE SetScore(updated, match.topic, ScoreOf(updated, match.topic) + increment),
                 Tail(matches), distance_threshold)

\* variant: the accumulation starts from an empty dict, not from a copy
_accumulate_scores_from_empty(current_scores, matches, distance_threshold) ==
    AccumulateFrom(<<>>, matches, distance_threshold)

_accumulate_scores(current_scores, matches, distance_threshold) ==
    AccumulateFrom(current_scores, matches, distance_threshold)

\* sorted(scores.items(), key=score, reverse=True) is stable: ranked[0] is the
\* first entry with the largest score, ranked[1] the best of the others
TopIndex(scores) ==
    CHOOSE i \in 1..Len(scores) :
        /\ \A j \in 1..Len(scores) : scores[j].score <= scores[i].score
        /\ \A j \in 1..(i - 1) : scores[j].score < scores[i].score

SecondScore(scores) ==
    IF Len(scores) > 1
    THEN LET rest == {scores[j].score : j \in (1..Len(scores)) \ {TopIndex(scores)}}
         IN  CHOOSE s \in rest : \A r \in rest : r <= s
    ELSE 0

\* variant: line 168 compares the top score, not the lead, with the margin
_select_topic_margin_on_top(scores, score_threshold, margin_threshold) ==
    IF scores = <<>> THEN NONE
    ELSE LET top == scores[TopIndex(scores)]
         IN  IF top.score < score_threshold THEN NONE
             ELSE IF top.score < margin_threshold THEN NONE
             ELSE top.topic

\* variant: the margin test of line 168 is missing
_select_topic_without_margin(scores, score_threshold, margin_threshold) ==
    IF scores = <<>> THEN NONE
    ELSE LET top == scores[TopIndex(scores)]
         IN  IF top.score < score_threshold THEN NONE ELSE top.topic

\* variant: both comparisons of lines 166 and 168 exclude equality
_select_topic_strict(scores, score_threshold, margin_threshold) ==
    IF scores = <<>> THEN NONE
    ELSE LET top == scores[TopIndex(scores)]
         IN  IF top.score <= score_threshold THEN NONE
             ELSE IF top.score - SecondScore(scores) <= margin_threshold THEN NONE
             ELSE top.topic

_select_topic(scores, score_threshold, margin_threshold) ==
    IF scores = <<>> THEN NONE
    ELSE LET top == scores[TopIndex(scores)]
         IN  IF top.score < score_threshold THEN NONE
             ELSE IF top.score - SecondScore(scores) < margin_threshold THEN NONE
             ELSE top.topic

\* variant: the two parts are joined by a single line break
_combine_prompts_single_newline(base_prompt, topic_prompt) ==
    IF Truthy(base_prompt) /\ Truthy(topic_prompt)
    THEN base_prompt \o "\n" \o topic_prompt
    ELSE IF Truthy(base_prompt) THEN base_prompt ELSE topic_prompt

_combine_prompts(base_prompt, topic_prompt) ==
    IF Truthy(base_prompt) /\ Truthy(topic_prompt)
    THEN base_prompt \o "\n\n" \o topic_prompt
    ELSE IF Truthy(base_prompt) THEN base_prompt ELSE topic_prompt

\* content.strip(): the contents used here are blank or have no outer blanks
Strip(content) == IF content \in {"", " ", "  "} THEN "" ELSE content

\* variant: the role test of line 134 is missing
_last_message_of_any_role(messages) ==
    IF messages = <<>> THEN NONE
    ELSE IF Strip(messages[Len(messages)].content) = "" THEN NONE
    ELSE Strip(messages[Len(messages)].content)

\* variant: a blank user message is passed over for an earlier one
RECURSIVE _last_nonblank_user_message(_)
_last_nonblank_user_message(messages) ==
    IF messages = <<>> THEN NONE
    ELSE LET message == messages[Len(messages)]
         IN  IF message.role = "user" /\ Strip(message.content) # ""
             THEN Strip(message.content)
             ELSE _last_nonblank_user_message(SubSeq(messages, 1, Len(messages) - 1))

RECURSIVE _last_user_message(_)
_last_user_message(messages) ==
    IF messages = <<>> THEN NONE
    ELSE LET message == messages[Len(messages)]
         IN  IF message.role = "user"
             THEN (IF Strip(message.content) = "" THEN NONE ELSE Strip(message.content))
             ELSE _last_user_message(SubSeq(messages, 1, Len(messages) - 1))

----------------------------------------------------------------------------
\* The environment of one call: which step fails if the call reaches it, the
\* text of the exception it raises, whether the model path exists on disk, and
\* the neighbours the index returns.

FailPoints ==
    { "db_missing",        \* retriever.py:89   the store path does not exist
      "chroma_import",     \* retriever.py:94   import chromadb fails
      "open",              \* retriever.py:101  PersistentClient / get_collection fails
      "unavailable",       \* embedding.py:55   sentence_transformers not importable
      "st_import",         \* embedding.py:82   the import under the lock fails
      "load_local",        \* embedding.py:107  the local load raises
      "load_local_retry",  \* embedding.py:104  TypeError, then the retry raises
      "download",          \* embedding.py:113  the remote fetch raises
      "save",              \* embedding.py:119  mkdir or model.save raises after the fetch
      "encode",            \* embedding.py:64   the model's encode raises
      "query",             \* retriever.py:45   collection.query raises
      "generate_reply" }   \* workers.py:41     the language model client raises

\* str(exc): an exception built without arguments has the empty text
Messages == {"", "boom"}

UnavailableMessage == "sentence-transformers is not available. Install the counseling dependencies."
DbMissingMessage == "Chroma DB not found"

EME == "EmbeddingModelError"
TRE == "TopicRetrievalError"
OtherError == "Exception"

\* the steps whose exception text comes from the environment
TextedFailPoints == {"chroma_import", "open", "st_import", "load_local", "download", "query"}

EnvironmentsWith(raw_lists) ==
    {[fail |-> "none", msg |-> "", path_exists |-> p, raw |-> r] :
        p \in BOOLEAN, r \in raw_lists}
    \cup
    {[fail |-> f, msg |-> m, path_exists |-> (f # "download"), raw |-> <<>>] :
        f \in TextedFailPoints, m \in Messages}
    \cup
    {[fail |-> f, msg |-> "", path_exists |-> (f # "save"), raw |-> <<>>] :
        f \in FailPoints \ TextedFailPoints}

Environments == EnvironmentsWith(RawLists)

QuietEnvironment == [fail |-> "none", msg |-> "", path_exists |-> TRUE, raw |-> <<>>]

----------------------------------------------------------------------------
\* embedding.py: EmbeddingProvider.  A call's outcome is a record: exc (the
\* exception type raised, "" for a normal return), msg (its text), the
\* provider's fields after the call and the operations performed, in order.

_load_local(emb, env) ==
    IF env.fail = "load_local"
    THEN [exc |-> EME, msg |-> env.msg, emb |-> [emb EXCEPT !.init_error = env.msg],
          ops |-> <<"load_local">>]
    ELSE IF env.fail = "load_local_retry"
    THEN [exc |-> OtherError, msg |-> env.msg, emb |-> emb,
          ops |-> <<"load_local", "load_local">>]
    ELSE [exc |-> "", msg |-> "", emb |-> [emb EXCEPT !.loaded = TRUE],
          ops |-> <<"load_local">>]

\* variant: a failure to cache the fetched model fails the load
_download_model_save_fatal(emb, env) ==
    IF env.fail = "download"
    THEN [exc |-> EME, msg |-> env.msg, emb |-> [emb EXCEPT !.init_error = env.msg],
          ops |-> <<"download">>]
    ELSE IF env.fail = "save"
    THEN [exc |-> EME, msg |-> env.msg, emb |-> [emb EXCEPT !.init_error = env.msg],
          ops |-> <<"download", "save">>]
    ELSE [exc |-> "", msg |-> "", emb |-> [emb EXCEPT !.loaded = TRUE],
          ops |-> <<"download", "save">>]

_download_model(emb, env) ==
    IF env.fail = "download"
    THEN [exc |-> EME, msg |-> env.msg, emb |-> [emb EXCEPT !.init_error = env.msg],
          ops |-> <<"download">>]
    ELSE IF env.fail = "save"
    THEN [exc |-> "", msg |-> "", emb |-> [emb EXCEPT !.loaded = TRUE],
          ops |-> <<"download", "save", "log_warning">>]
    ELSE [exc |-> "", msg |-> "", emb |-> [emb EXCEPT !.loaded = TRUE],
          ops |-> <<"download", "save">>]

_ensure_embedder(emb, env) ==
    IF emb.loaded THEN [exc |-> "", msg |-> "", emb |-> emb, ops |-> <<>>]
    ELSE IF Truthy(emb.init_error)
    THEN [exc |-> EME, msg |-> emb.init_error, emb |-> emb, ops |-> <<>>]
    ELSE IF env.fail = "unavailable"
    THEN [exc |-> EME, msg |-> UnavailableMessage,
          emb |-> [emb EXCEPT !.init_error = UnavailableMessage], ops |-> <<>>]
    ELSE IF env.fail = "st_import"
    THEN [exc |-> EME, msg |-> env.msg, emb |-> [emb EXCEPT !.init_error = env.msg],
          ops |-> <<>>]
    ELSE IF env.path_exists THEN _load_local(emb, env)
    ELSE _download_model(emb, env)

encode(emb, env) ==
    LET loaded == _ensure_embedder(emb, env)
    IN  IF loaded.exc # "" THEN loaded
        ELSE IF env.fail = "encode"
        THEN [exc |-> OtherError, msg |-> env.msg, emb |-> loaded.emb,
              ops |-> Append(loaded.ops, "encode")]
        ELSE [exc |-> "", msg |-> "", emb |-> loaded.emb,
              ops |-> Append(loaded.ops, "encode")]

----------------------------------------------------------------------------
\* retriever.py: TopicRetriever

_ensure_collection(ret, env) ==
    IF ret.collection THEN [exc |-> "", msg |-> "", ret |-> ret, ops |-> <<>>]
    ELSE IF Truthy(ret.init_error)
    THEN [exc |-> TRE, msg |-> ret.init_error, ret |-> ret, ops |-> <<>>]
    ELSE IF env.fail = "db_missing"
    THEN [exc |-> TRE, msg |-> DbMissingMessage,
          ret |-> [ret EXCEPT !.init_error = DbMissingMessage], ops |-> <<"path_check">>]
    ELSE IF env.fail = "chroma_import"
    THEN [exc |-> TRE, msg |-> env.msg, ret |-> [ret EXCEPT !.init_error = env.msg],
          ops |-> <<"path_check">>]
    ELSE IF env.fail = "open"
    THEN [exc |-> TRE, msg |-> env.msg, ret |-> [ret EXCEPT !.init_error = env.msg],
          ops |-> <<"path_check", "open_collection">>]
    ELSE [exc |-> "", msg |-> "", ret |-> [ret EXCEPT !.collection = TRUE],
          ops |-> <<"path_check", "open_collection">>]

\* variant: the test `topic in seen` of line 75 is missing
SkipWithoutSeen(entry, seen, distance_threshold) ==
    \/ entry.dist = <<>>
    \/ entry.dist[1] > distance_threshold
    \/ ~Truthy(entry.topic)

\* variant: the test of line 70 is missing
SkipWithoutThreshold(entry, seen, distance_threshold) ==
    \/ entry.dist = <<>>
    \/ ~Truthy(entry.topic)
    \/ entry.topic \in seen

\* the `continue` conditions of lines 64-76; a raw entry is a record of the
\* metadata's topic_main ("" when absent) and the optional distance
Skip(entry, seen, distance_threshold) ==
    \/ entry.dist = <<>>
    \/ entry.dist[1] > distance_threshold
    \/ ~Truthy(entry.topic)
    \/ entry.topic \in seen

\* the loop over zip(metadatas, distances), lines 61-80
RECURSIVE FilterRaw(_, _, _, _, _)
FilterRaw(raw, results, seen, top_k, distance_threshold) ==
    IF raw = <<>> THEN results
    ELSE LET entry == Head(raw)
             added == Append(results, [topic |-> entry.topic, distance |-> entry.dist[1]])
         IN  IF Skip(entry, seen, distance_threshold)
             THEN FilterRaw(Tail(raw), results, seen, top_k, distance_threshold)
             ELSE IF Len(added) >= top_k THEN added
             ELSE FilterRaw(Tail(raw), added, seen \cup {entry.topic}, top_k, distance_threshold)

\* variant: the early return of line 39 is never taken
EmptyTextNeverSeen(text) == FALSE

\* line 39: if not text
EmptyText(text) == ~Truthy(text)

\* line 47: the number of neighbours requested from the index
OverFetch == 20

\* variant: only top_k neighbours are requested
NResultsTopKOnly(top_k) == top_k

\* line 47: n_results = max(top_k, 20)
NResults(top_k) == Max(top_k, OverFetch)

\* collection.query: the n_results nearest of the index's neighbours
IndexQuery(neighbours, n_results) ==
    SubSeq(neighbours, 1, IF n_results < Len(neighbours) THEN n_results ELSE Len(neighbours))

\* variant: lines 42 and 43 are exchanged, the text is encoded before the
\* collection is looked up
query_encoding_first(ret, emb, text, top_k, distance_threshold, env) ==
    IF EmptyText(text) THEN [exc |-> "", msg |-> "", ret |-> ret, emb |-> emb, ops |-> <<>>,
                       matches |-> <<>>, n_results |-> 0]
    ELSE LET encoded == encode(emb, env)
             opened == _ensure_collection(ret, env)
         IN  IF encoded.exc # ""
             THEN [exc |-> encoded.exc, msg |-> encoded.msg, ret |-> ret, emb |-> encoded.emb,
                   ops |-> encoded.ops, matches |-> <<>>, n_results |-> 0]
             ELSE IF opened.exc # ""
             THEN [exc |-> opened.exc, msg |-> opened.msg, ret |-> opened.ret,
                   emb |-> encoded.emb, ops |-> encoded.ops \o opened.ops, matches |-> <<>>,
                   n_results |-> 0]
             ELSE IF env.fail = "query"
             THEN [exc |-> TRE, msg |-> env.msg, ret |-> opened.ret, emb |-> encoded.emb,
                   ops |-> encoded.ops \o opened.ops \o <<"index_query">>, matches |-> <<>>,
                   n_results |-> NResults(top_k)]
             ELSE [exc |-> "", msg |-> "", ret |-> opened.ret, emb |-> encoded.emb,
                   ops |-> encoded.ops \o opened.ops \o <<"index_query">>,
                   matches |-> FilterRaw(IndexQuery(env.raw, NResults(top_k)), <<>>, {},
                                         top_k, distance_threshold),
                   n_results |-> NResults(top_k)]

query(ret, emb, text, top_k, distance_threshold, env) ==
    IF EmptyText(text) THEN [exc |-> "", msg |-> "", ret |-> ret, emb |-> emb, ops |-> <<>>,
                       matches |-> <<>>, n_results |-> 0]
    ELSE LET opened == _ensure_collection(ret, env)
             encoded == encode(emb, env)
         IN  IF opened.exc # ""
             THEN [exc |-> opened.exc, msg |-> opened.msg, ret |-> opened.ret, emb |-> emb,
                   ops |-> opened.ops, matches |-> <<>>, n_results |-> 0]
             ELSE IF encoded.exc # ""
             THEN [exc |-> encoded.exc, msg |-> encoded.msg, ret |-> opened.ret,
                   emb |-> encoded.emb, ops |-> opened.ops \o encoded.ops, matches |-> <<>>,
                   n_results |-> 0]
             ELSE IF env.fail = "query"
             THEN [exc |-> TRE, msg |-> env.msg, ret |-> opened.ret, emb |-> encoded.emb,
                   ops |-> opened.ops \o encoded.ops \o <<"index_query">>, matches |-> <<>>,
                   n_results |-> NResults(top_k)]
             ELSE [exc |-> "", msg |-> "", ret |-> opened.ret, emb |-> encoded.emb,
                   ops |-> opened.ops \o encoded.ops \o <<"index_query">>,
                   matches |-> FilterRaw(IndexQuery(env.raw, NResults(top_k)), <<>>, {},
                                         top_k, distance_threshold),
                   n_results |-> NResults(top_k)]

----------------------------------------------------------------------------
\* topic_router.py: CounselingTopicRouter.  An optional TopicUpdate is a
\* sequence: <<>> is None, <<u>> is the update u.

_ensure_retriever(rtr) ==
    IF rtr.retriever THEN [exc |-> "", msg |-> "", rtr |-> rtr, ops |-> <<>>]
    ELSE IF Truthy(rtr.init_error)
    THEN [exc |-> TRE, msg |-> rtr.init_error, rtr |-> rtr, ops |-> <<>>]
    ELSE [exc |-> "", msg |-> "", rtr |-> [rtr EXCEPT !.retriever = TRUE],
          ops |-> <<"create_retriever">>]

\* variant: a selected label without fragment is routed like no selection
IsCommittedWithFragment(st) ==
    Truthy(st.selected_topic) /\ CatalogGet(st.selected_topic) # ""

\* variant: the early return of line 63 is never taken
NeverCommitted(st) == FALSE

\* line 63: if state.selected_topic
IsCommitted(st) == Truthy(st.selected_topic)

\* variant: the committed path forgets the fragment
CommittedPromptBaseOnly(base_prompt, selected_topic) == base_prompt

\* lines 64-67: the prompt of a call on a state whose selected_topic is set
CommittedPrompt(base_prompt, selected_topic) ==
    IF Truthy(CatalogGet(selected_topic))
    THEN _combine_prompts(base_prompt, CatalogGet(selected_topic))
    ELSE base_prompt

\* lines 79-83: the handler of EmbeddingModelError and TopicRetrievalError
OnRoutingError(rtr, msg) ==
    IF ~Truthy(rtr.init_error)
    THEN [rtr |-> [rtr EXCEPT !.init_error = msg], logged |-> 1]
    ELSE [rtr |-> rtr, logged |-> 0]

\* variant: the handler still counts the turn
DegradedUpdateCountingTurn(st) ==
    <<[scores |-> st.scores, selected_topic |-> NONE, turns |-> st.turns + 1]>>

\* line 83: what the handler returns
DegradedUpdate(st) == <<>>

\* variant: the decision is attempted on every turn
DecideOnEveryTurn(config, updated_scores, next_turns) ==
    LET selected_topic ==
            _select_topic(updated_scores, config.score_threshold, config.margin_threshold)
    IN  IF Truthy(selected_topic) /\ ~Truthy(CatalogGet(selected_topic))
        THEN NONE
        ELSE selected_topic

\* variant: the catalog is not consulted
DecideWithoutCatalog(config, updated_scores, next_turns) ==
    IF next_turns >= config.min_user_turns
    THEN _select_topic(updated_scores, config.score_threshold, config.margin_threshold)
    ELSE NONE

\* lines 92-100: the decision of this turn
Decide(config, updated_scores, next_turns) ==
    IF next_turns >= config.min_user_turns
    THEN LET selected_topic ==
                 _select_topic(updated_scores, config.score_threshold, config.margin_threshold)
         IN  IF Truthy(selected_topic) /\ ~Truthy(CatalogGet(selected_topic))
             THEN NONE
             ELSE selected_topic
    ELSE NONE

\* lines 102-105
\* variant: line 105 returns the fragment alone
TurnPromptFragmentOnly(base_prompt, selected_topic) ==
    IF Truthy(selected_topic) THEN CatalogGet(selected_topic) ELSE base_prompt

TurnPrompt(base_prompt, selected_topic) ==
    IF Truthy(selected_topic)
    THEN _combine_prompts(base_prompt, CatalogGet(selected_topic))
    ELSE base_prompt

\* variant: the turn count is left out of `changed`
MakeUpdateOnNewEvidence(st, updated_scores, selected_topic, next_turns) ==
    IF updated_scores # st.scores \/ selected_topic # NONE
    THEN <<[scores |-> updated_scores, selected_topic |-> selected_topic, turns |-> next_turns]>>
    ELSE <<>>

\* variant: an update is returned only when a topic is selected
MakeUpdateOnlyOnCommit(st, updated_scores, selected_topic, next_turns) ==
    IF selected_topic # NONE
    THEN <<[scores |-> updated_scores, selected_topic |-> selected_topic, turns |-> next_turns]>>
    ELSE <<>>

\* lines 107-108
MakeUpdate(st, updated_scores, selected_topic, next_turns) ==
    IF updated_scores # st.scores \/ next_turns # st.turns \/ selected_topic # NONE
    THEN <<[scores |-> updated_scores, selected_topic |-> selected_topic, turns |-> next_turns]>>
    ELSE <<>>

\* line 90
NextTurns(st) == st.turns + 1

\* TopicPromptResult(prompt, None) of a call that touched nothing
\* Objects.  The dict held by state.scores is the object InputDict;
\* _accumulate_scores writes into the object dict(current_scores) gives it.
\* A result's in_place is <<entries>> when the call left these entries in
\* the input dict, <<>> when it did not write into it.
InputDict == "state.scores"

\* variant: no copy is taken, the accumulation writes into its argument
DictAlias(obj) == obj

\* line 145: dict(current_scores) is a new object
DictCopy(obj) == "dict(" \o obj \o ")"

NoUpdateResult(rtr, ret, emb, prompt) ==
    [exc |-> "", caught |-> "", prompt |-> prompt, update |-> <<>>, rtr |-> rtr, ret |-> ret,
     emb |-> emb, ops |-> <<>>, logged |-> 0, matches |-> <<>>, in_place |-> <<>>]

build_prompt(rtr, ret, emb, config, messages, base_prompt, st, env) ==
    IF IsCommitted(st)
    THEN NoUpdateResult(rtr, ret, emb, CommittedPrompt(base_prompt, st.selected_topic))
    ELSE LET last_user == _last_user_message(messages) IN
    IF ~Truthy(last_user)
    THEN NoUpdateResult(rtr, ret, emb, base_prompt)
    ELSE LET ensured == _ensure_retriever(rtr)
             queried == query(ret, emb, last_user, config.top_k, config.distance_threshold, env)
             \* the exception raised inside the try block, if any
             raised == IF ensured.exc # ""
                       THEN [exc |-> ensured.exc, msg |-> ensured.msg, ret |-> ret, emb |-> emb,
                             ops |-> ensured.ops]
                       ELSE [exc |-> queried.exc, msg |-> queried.msg, ret |-> queried.ret,
                             emb |-> queried.emb, ops |-> ensured.ops \o queried.ops]
         IN
    IF raised.exc \in {EME, TRE}
    THEN LET handled == OnRoutingError(ensured.rtr, raised.msg)
         IN  [exc |-> "", caught |-> raised.exc, prompt |-> base_prompt,
              update |-> DegradedUpdate(st), rtr |-> handled.rtr, ret |-> raised.ret,
              emb |-> raised.emb, ops |-> raised.ops, logged |-> handled.logged,
              matches |-> <<>>, in_place |-> <<>>]
    ELSE IF raised.exc # ""
    THEN [exc |-> raised.exc, caught |-> "", prompt |-> NONE, update |-> <<>>,
          rtr |-> ensured.rtr, ret |-> raised.ret, emb |-> raised.emb, ops |-> raised.ops,
          logged |-> 0, matches |-> <<>>, in_place |-> <<>>]
    ELSE LET updated_scores ==
                 _accumulate_scores(st.scores, queried.matches, config.distance_threshold)
             next_turns == NextTurns(st)
             selected_topic == Decide(config, updated_scores, next_turns)
         IN  [exc |-> "", caught |-> "", prompt |-> TurnPrompt(base_prompt, selected_topic),
              update |-> MakeUpdate(st, updated_scores, selected_topic, next_turns),
              rtr |-> ensured.rtr, ret |-> raised.ret, emb |-> raised.emb, ops |-> raised.ops,
              logged |-> 0, matches |-> queried.matches,
              in_place |-> IF DictCopy(InputDict) = InputDict THEN <<updated_scores>> ELSE <<>>]

----------------------------------------------------------------------------
\* State machine

\* no thread is inside EmbeddingProvider.encode
Threads == 1..NumThreads

IdleThread == [pc |-> "idle", calls |-> 0, got |-> 0, used |-> 0, exc |-> "", waited |-> FALSE]

NoThreads ==
    /\ threads = [t \in Threads |-> IdleThread]
    /\ lock = 0
    /\ loads = <<>>
    /\ opens = <<>>

\* History of one conversation, kept beside the program's state: the number
\* of build_prompt calls that got matches back from the index, what each
\* topic was credited in them, the user messages they routed, and whether
\* every update returned so far reached the conversation; committed is <<p>>
\* once a call has selected a topic, p the prompt that call returned
NoLedger ==
    [calls |-> 0, sums |-> [t \in Topics |-> 0], users |-> {}, merged |-> TRUE,
     committed |-> <<>>]

\* an update was returned and never merged: the history is followed no further
LostLedger == [NoLedger EXCEPT !.merged = FALSE]

\* the call ran the similarity query and build_prompt went on to line 85
Retrieved(result) ==
    /\ result.exc = "" /\ result.caught = ""
    /\ result.ops # <<>> /\ result.ops[Len(result.ops)] = "index_query"

\* the positive increments of one call for one topic
RECURSIVE Increments(_, _, _)
Increments(matches, topic, distance_threshold) ==
    IF matches = <<>> THEN 0
    ELSE LET increment == _distance_to_score(matches[1].distance, distance_threshold)
         IN  (IF matches[1].topic = topic /\ increment > 0 THEN increment ELSE 0)
             + Increments(Tail(matches), topic, distance_threshold)

Credit(led, matches, last_user, distance_threshold) ==
    [led EXCEPT !.calls = @ + 1,
                !.sums = [t \in Topics |-> @[t] + Increments(matches, t, distance_threshold)],
                !.users = @ \cup {last_user}]

NoCall ==
    [base |-> NONE, messages |-> <<>>, state_in |-> EmptyState, exc |-> "", caught |-> "",
     prompt |-> NONE, update |-> <<>>, ops |-> <<>>, logged |-> 0, generated |-> FALSE,
     was_disabled |-> FALSE, matches |-> <<>>, in_place |-> <<>>]

Init ==
    /\ cfg \in Configs
    /\ state \in InitialStates
    /\ origin = state
    /\ router = [retriever |-> FALSE, init_error |-> NONE]
    /\ retriever = [collection |-> FALSE, init_error |-> NONE]
    /\ embedder = [loaded |-> FALSE, init_error |-> NONE]
    /\ warnings = 0
    /\ base \in BasePrompts
    /\ disabled = FALSE
    /\ pc = "idle"
    /\ last = NoCall
    /\ load_failure = <<>>
    /\ NoThreads
    /\ ledger = NoLedger

\* the call reaches the dependencies only with no topic selected and a
\* non-blank latest user message; the environment matters to no other call
ReachesQuery(st, messages) ==
    ~IsCommitted(st) /\ Truthy(_last_user_message(messages))

\* the model path matters only to a call that loads the model
EnvironmentsOf(environments, st, emb, messages) ==
    IF ReachesQuery(st, messages)
    THEN {env \in environments : env.path_exists \/ (~emb.loaded /\ ~Truthy(emb.init_error))}
    ELSE {env \in environments : env.fail = "generate_reply"} \cup {QuietEnvironment}

Committing(led, result) ==
    IF result.update # <<>> /\ result.update[1].selected_topic # NONE
    THEN [led EXCEPT !.committed = <<result.prompt>>]
    ELSE led

\* workers.py LLMWorker.run: build the prompt, generate the reply, emit
\* finished(response, topic_update), or failed(str(exc)) on any exception
Worker(environments) ==
    /\ pc = "idle"
    /\ IsCommitted(state) \/ state.turns < MaxTurns
    /\ warnings < MaxWarnings
    /\ \E messages \in MessageLists :
       \E env \in EnvironmentsOf(environments, state, embedder, messages) :
       \E result \in {build_prompt(router, retriever, embedder, cfg, messages, base, state, env)} :
          LET generated == result.exc = ""
          IN  /\ router' = result.rtr
              /\ retriever' = result.ret
              /\ embedder' = result.emb
              /\ warnings' = warnings + result.logged
              /\ disabled' = (disabled \/ result.caught # "")
              /\ last' = [base |-> base, messages |-> messages, state_in |-> state,
                          exc |-> result.exc, caught |-> result.caught,
                          prompt |-> result.prompt, update |-> result.update,
                          ops |-> result.ops, logged |-> result.logged,
                          generated |-> generated, was_disabled |-> disabled,
                          matches |-> result.matches, in_place |-> result.in_place]
              /\ state' = IF result.in_place = <<>> THEN state
                          ELSE [state EXCEPT !.scores = result.in_place[1]]
              /\ pc' = IF generated /\ env.fail # "generate_reply" THEN "finished" ELSE "failed"
              /\ ledger' = IF Retrieved(result) /\ ledger.merged
                           THEN Committing(Credit(ledger, result.matches,
                                                  _last_user_message(messages),
                                                  cfg.distance_threshold), result)
                           ELSE ledger
    /\ UNCHANGED <<cfg, origin, base, load_failure, threads, lock, loads, opens>>

Run == Worker(Environments)

\* the receiver of finished(response, topic_update) merges the update into the
\* conversation's topic state
MergeUpdate(st, update) ==
    IF update = <<>> THEN st
    ELSE [scores |-> update[1].scores, selected_topic |-> update[1].selected_topic,
          turns |-> update[1].turns]

OnFinished ==
    /\ pc = "finished"
    /\ state' = MergeUpdate(state, last.update)
    /\ pc' = "idle"
    /\ last' = NoCall
    /\ UNCHANGED <<cfg, origin, router, retriever, embedder, warnings, base, disabled,
                   load_failure, threads, lock, loads, opens, ledger>>

\* the receiver of failed(message) shows the error; no update arrives
OnFailed ==
    /\ pc = "failed"
    /\ pc' = "idle"
    /\ last' = NoCall
    /\ ledger' = IF last.update = <<>> THEN ledger ELSE LostLedger
    /\ UNCHANGED <<cfg, state, origin, router, retriever, embedder, warnings, base, disabled,
                   load_failure, threads, lock, loads, opens>>

Next == Run \/ OnFinished \/ OnFailed

Spec == Init /\ [][Next]_vars

----------------------------------------------------------------------------
\* The two-turn scenario: a new conversation under the default configuration,
\* the index answering with neighbours at distances 0.2 and 0.3

ScenarioRawEntries ==
    { [topic |-> "anxiety", dist |-> <<2>>], [topic |-> "anxiety", dist |-> <<3>>],
      [topic |-> "sleep", dist |-> <<3>>] }

ScenarioRawLists ==
    {raw \in UNION {[1..n -> ScenarioRawEntries] : n \in 0..MaxRaw} : Sorted(raw)}

ScenarioInit ==
    /\ cfg = DefaultConfig
    /\ state = EmptyState
    /\ origin = state
    /\ router = [retriever |-> FALSE, init_error |-> NONE]
    /\ retriever = [collection |-> FALSE, init_error |-> NONE]
    /\ embedder = [loaded |-> FALSE, init_error |-> NONE]
    /\ warnings = 0
    /\ base \in BasePrompts
    /\ disabled = FALSE
    /\ pc = "idle"
    /\ last = NoCall
    /\ load_failure = <<>>
    /\ NoThreads
    /\ ledger = NoLedger

RunScenario == Worker(EnvironmentsWith(ScenarioRawLists))

ScenarioNext == RunScenario \/ OnFinished \/ OnFailed

SpecScenario == ScenarioInit /\ [][ScenarioNext]_vars

----------------------------------------------------------------------------
\* A conversation whose first neighbours carry a label without fragment: a
\* new conversation, decisions from the first turn, thresholds low enough
\* for one neighbour at distance 0.6 to pass

VoidConfig ==
    [min_user_turns |-> 1, distance_threshold |-> 11, score_threshold |-> 44,
     margin_threshold |-> 0, top_k |-> 3]

VoidRawEntries ==
    { [topic |-> "anxiety", dist |-> <<0>>], [topic |-> "ghost", dist |-> <<6>>],
      [topic |-> "sleep", dist |-> <<6>>] }

VoidRawLists ==
    {raw \in UNION {[1..n -> VoidRawEntries] : n \in 0..MaxRaw} : Sorted(raw)}

VoidInit ==
    /\ cfg = VoidConfig
    /\ state = EmptyState
    /\ origin = state
    /\ router = [retriever |-> FALSE, init_error |-> NONE]
    /\ retriever = [collection |-> FALSE, init_error |-> NONE]
    /\ embedder = [loaded |-> FALSE, init_error |-> NONE]
    /\ warnings = 0
    /\ base \in BasePrompts
    /\ disabled = FALSE
    /\ pc = "idle"
    /\ last = NoCall
    /\ load_failure = <<>>
    /\ NoThreads
    /\ ledger = NoLedger

RunVoid == Worker(EnvironmentsWith(VoidRawLists))

VoidNext == RunVoid \/ OnFinished \/ OnFailed

SpecVoid == VoidInit /\ [][VoidNext]_vars

----------------------------------------------------------------------------
\* Scoring: _distance_to_score on its own, and the worker under distance
\* thresholds that are not positive

ScoreDistances == {-1, 0, 1, 5, 10, 11, 12}
ScoreThresholds == {-11, 0, 1, 5, 10, 11}

UnscoredConfigs ==
    { [min_user_turns |-> 1, distance_threshold |-> t, score_threshold |-> 0,
       margin_threshold |-> 0, top_k |-> 3] : t \in {-11, 0} }

ScoreInit ==
    /\ cfg \in UnscoredConfigs
    /\ state \in {EmptyState, [scores |-> <<[topic |-> "sleep", score |-> ScoreScale]>>,
                                selected_topic |-> NONE, turns |-> 1]}
    /\ origin = state
    /\ router = [retriever |-> FALSE, init_error |-> NONE]
    /\ retriever = [collection |-> FALSE, init_error |-> NONE]
    /\ embedder = [loaded |-> FALSE, init_error |-> NONE]
    /\ warnings = 0
    /\ base = "BASE"
    /\ disabled = FALSE
    /\ pc = "idle"
    /\ last = NoCall
    /\ load_failure = <<>>
    /\ NoThreads
    /\ ledger = NoLedger

\* _distance_to_score applied to two distances and to distance 0
ScoreCall ==
    /\ pc = "idle"
    /\ \E threshold \in ScoreThresholds, near \in ScoreDistances, far \in ScoreDistances :
        /\ near <= far
        /\ last' = [threshold |-> threshold, near |-> near, far |-> far,
                    near_score |-> _distance_to_score(near, threshold),
                    far_score |-> _distance_to_score(far, threshold),
                    zero_score |-> _distance_to_score(0, threshold)]
    /\ pc' = "scored"
    /\ UNCHANGED <<cfg, state, origin, router, retriever, embedder, warnings, base, disabled,
                   load_failure, threads, lock, loads, opens, ledger>>

ScoreReturn ==
    /\ pc = "scored"
    /\ pc' = "idle"
    /\ last' = NoCall
    /\ UNCHANGED <<cfg, state, origin, router, retriever, embedder, warnings, base, disabled,
                   load_failure, threads, lock, loads, opens, ledger>>

ScoreNext == ScoreCall \/ ScoreReturn \/ Run \/ OnFinished \/ OnFailed

SpecScore == ScoreInit /\ [][ScoreNext]_vars

----------------------------------------------------------------------------
\* Direct use of TopicRetriever.query and EmbeddingProvider.encode by one
\* caller, with arguments the router never passes

QueryTexts == {"", "hello"}
QueryTopKs == {-1, 0, 1, 2, 3}
QueryThresholds == {0, 11}

\* metadatas and distances of collection.query: a topic_main may be absent
\* and a distance may be None
QueryRawEntries ==
    { [topic |-> "anxiety", dist |-> <<0>>], [topic |-> "anxiety", dist |-> <<6>>],
      [topic |-> "sleep", dist |-> <<6>>], [topic |-> "", dist |-> <<6>>],
      [topic |-> "sleep", dist |-> <<>>], [topic |-> "ghost", dist |-> <<12>>] }

\* the index returns its neighbours by ascending distance
SortedPresent(raw) ==
    \A i, j \in 1..Len(raw) :
        (i < j /\ raw[i].dist # <<>> /\ raw[j].dist # <<>>) => raw[i].dist[1] <= raw[j].dist[1]

QueryRawLists ==
    {raw \in UNION {[1..n -> QueryRawEntries] : n \in 0..MaxRaw} : SortedPresent(raw)}

DirectEnvironments ==
    {env \in EnvironmentsWith(QueryRawLists) : env.fail # "generate_reply"}

NoDirectCall ==
    [kind |-> "none", text |-> "", top_k |-> 0, distance_threshold |-> 0, raw |-> <<>>,
     exc |-> "", msg |-> "", ops |-> <<>>, matches |-> <<>>, n_results |-> 0]

\* the call runs lines 73-96 of embedding.py and they raise
LoadFailed(emb, env) ==
    /\ ~emb.loaded
    /\ ~Truthy(emb.init_error)
    /\ _ensure_embedder(emb, env).exc # ""

DirectInit ==
    /\ cfg = DefaultConfig
    /\ state = EmptyState
    /\ origin = state
    /\ router = [retriever |-> TRUE, init_error |-> NONE]
    /\ retriever = [collection |-> FALSE, init_error |-> NONE]
    /\ embedder = [loaded |-> FALSE, init_error |-> NONE]
    /\ warnings = 0
    /\ base = NONE
    /\ disabled = FALSE
    /\ pc = "idle"
    /\ last = NoDirectCall
    /\ load_failure = <<>>
    /\ NoThreads
    /\ ledger = NoLedger

QueryCall ==
    /\ pc = "idle"
    /\ \E text \in QueryTexts, top_k \in QueryTopKs, distance_threshold \in QueryThresholds,
          env \in DirectEnvironments :
        \E result \in {query(retriever, embedder, text, top_k, distance_threshold, env)} :
            /\ retriever' = result.ret
            /\ embedder' = result.emb
            /\ last' = [kind |-> "query", text |-> text, top_k |-> top_k,
                        distance_threshold |-> distance_threshold, raw |-> env.raw,
                        exc |-> result.exc, msg |-> result.msg, ops |-> result.ops,
                        matches |-> result.matches, n_results |-> result.n_results]
            /\ load_failure' =
                  IF /\ ~EmptyText(text)
                     /\ _ensure_collection(retriever, env).exc = ""
                     /\ LoadFailed(embedder, env)
                  THEN <<[exc |-> result.exc, msg |-> result.msg]>>
                  ELSE load_failure
    /\ pc' = "returned"
    /\ UNCHANGED <<cfg, state, origin, router, warnings, base, disabled, threads, lock, loads, opens, ledger>>

EncodeCall ==
    /\ pc = "idle"
    /\ \E env \in {e \in DirectEnvironments : e.raw = <<>>} :
        \E result \in {encode(embedder, env)} :
            /\ embedder' = result.emb
            /\ last' = [kind |-> "encode", text |-> "hello", top_k |-> 0,
                        distance_threshold |-> 0, raw |-> <<>>,
                        exc |-> result.exc, msg |-> result.msg, ops |-> result.ops,
                        matches |-> <<>>, n_results |-> 0]
            /\ load_failure' =
                  IF LoadFailed(embedder, env)
                  THEN <<[exc |-> result.exc, msg |-> result.msg]>>
                  ELSE load_failure
    /\ pc' = "returned"
    /\ UNCHANGED <<cfg, state, origin, router, retriever, warnings, base, disabled,
                   threads, lock, loads, opens, ledger>>

\* the caller takes the result or the exception
Return ==
    /\ pc = "returned"
    /\ pc' = "idle"
    /\ last' = NoDirectCall
    /\ UNCHANGED <<cfg, state, origin, router, retriever, embedder, warnings, base, disabled,
                   load_failure, threads, lock, loads, opens, ledger>>

DirectNext == QueryCall \/ EncodeCall \/ Return

SpecDirect == DirectInit /\ [][DirectNext]_vars

----------------------------------------------------------------------------
\* EmbeddingProvider.encode called by several threads on one instance, one
\* step per statement of _ensure_embedder.  A model instance is numbered by
\* the loader call that returned it; got is the instance _ensure_embedder
\* returned to the thread, used the instance the thread encoded with.

\* the number of calls of the SentenceTransformer constructor among ops
LoaderCalls(ops) == Len(SelectSeq(ops, LAMBDA op : op \in {"load_local", "download"}))

\* the instance held by self._embedder: that of the latest successful load
CurrentModel == Cardinality({i \in 1..Len(loads) : loads[i]})

ThreadsInit ==
    /\ cfg = DefaultConfig
    /\ state = EmptyState
    /\ origin = state
    /\ router = [retriever |-> TRUE, init_error |-> NONE]
    /\ retriever = [collection |-> TRUE, init_error |-> NONE]
    /\ embedder = [loaded |-> FALSE, init_error |-> NONE]
    /\ warnings = 0
    /\ base = NONE
    /\ disabled = FALSE
    /\ pc = "idle"
    /\ last = NoDirectCall
    /\ load_failure = <<>>
    /\ NoThreads
    /\ ledger = NoLedger

Unthreaded == <<cfg, state, origin, router, retriever, warnings, base, disabled, pc, last,
                load_failure, opens, ledger>>

\* the thread raises exc: the exception leaves encode
Raise(t, exc) == [threads EXCEPT ![t].pc = "done", ![t].exc = exc]

\* the threads waiting for the lock while its holder fails
MarkWaiting(thr) ==
    [t \in Threads |-> IF thr[t].pc = "acquire" THEN [thr[t] EXCEPT !.waited = TRUE] ELSE thr[t]]

\* line 62: encode is called
Begin(t) ==
    /\ threads[t].pc \in {"idle", "done"}
    /\ threads[t].calls < MaxCalls
    /\ threads' = [threads EXCEPT ![t] = [IdleThread EXCEPT !.pc = "check_embedder",
                                                             !.calls = threads[t].calls + 1]]
    /\ UNCHANGED <<embedder, lock, loads, Unthreaded>>

\* lines 68-69
CheckEmbedder(t) ==
    /\ threads[t].pc = "check_embedder"
    /\ threads' = IF embedder.loaded
                  THEN [threads EXCEPT ![t].pc = "encode", ![t].got = CurrentModel]
                  ELSE [threads EXCEPT ![t].pc = "check_error"]
    /\ UNCHANGED <<embedder, lock, loads, Unthreaded>>

\* lines 70-71
CheckError(t) ==
    /\ threads[t].pc = "check_error"
    /\ threads' = IF Truthy(embedder.init_error)
                  THEN Raise(t, EME)
                  ELSE [threads EXCEPT ![t].pc = "availability"]
    /\ UNCHANGED <<embedder, lock, loads, Unthreaded>>

\* lines 73-76
Availability(t) ==
    /\ threads[t].pc = "availability"
    /\ \/ /\ threads' = [threads EXCEPT ![t].pc = "acquire"]
          /\ UNCHANGED embedder
       \/ /\ threads' = Raise(t, EME)
          /\ embedder' = [embedder EXCEPT !.init_error = UnavailableMessage]
    /\ UNCHANGED <<lock, loads, Unthreaded>>

\* line 78: with self._lock
Acquire(t) ==
    /\ threads[t].pc = "acquire"
    /\ lock = 0
    /\ lock' = t
    /\ threads' = [threads EXCEPT ![t].pc = "locked_check"]
    /\ UNCHANGED <<embedder, loads, Unthreaded>>

\* variant: the second test of self._embedder, under the lock, is missing
LoadedUnderLockIgnored(emb) == FALSE

\* line 79: if self._embedder is not None
LoadedUnderLock(emb) == emb.loaded

\* lines 79-80
LockedCheck(t) ==
    /\ threads[t].pc = "locked_check"
    /\ IF LoadedUnderLock(embedder)
       THEN /\ threads' = [threads EXCEPT ![t].pc = "encode", ![t].got = CurrentModel]
            /\ lock' = 0
       ELSE /\ threads' = [threads EXCEPT ![t].pc = "import"]
            /\ UNCHANGED lock
    /\ UNCHANGED <<embedder, loads, Unthreaded>>

\* lines 82-86
Import(t) ==
    /\ threads[t].pc = "import"
    /\ \/ /\ threads' = [threads EXCEPT ![t].pc = "load"]
          /\ UNCHANGED <<embedder, lock>>
       \/ \E m \in Messages :
            /\ embedder' = [embedder EXCEPT !.init_error = m]
            /\ threads' = MarkWaiting(Raise(t, EME))
            /\ lock' = 0
    /\ UNCHANGED <<loads, Unthreaded>>

\* lines 88-94 with _load_local and _download_model
Load(t) ==
    /\ threads[t].pc = "load"
    /\ \E path_exists \in BOOLEAN,
          fail \in {"none", "load_local", "load_local_retry", "download", "save"},
          m \in Messages :
        \E result \in {IF path_exists
                        THEN _load_local(embedder, [fail |-> fail, msg |-> m])
                        ELSE _download_model(embedder, [fail |-> fail, msg |-> m])} :
            /\ embedder' = result.emb
            /\ loads' = loads \o [i \in 1..LoaderCalls(result.ops) |->
                                     result.exc = "" /\ i = LoaderCalls(result.ops)]
            /\ threads' = IF result.exc = ""
                          THEN [threads EXCEPT ![t].pc = "encode",
                                               ![t].got = CurrentModel + 1]
                          ELSE MarkWaiting(Raise(t, result.exc))
    /\ lock' = 0
    /\ UNCHANGED Unthreaded

\* line 64: embedder.encode(texts)
Encode(t) ==
    /\ threads[t].pc = "encode"
    /\ \E exc \in {"", OtherError} :
          threads' = [threads EXCEPT ![t].pc = "done", ![t].used = threads[t].got,
                                     ![t].exc = exc]
    /\ UNCHANGED <<embedder, lock, loads, Unthreaded>>

ThreadsNext ==
    \E t \in Threads :
        \/ Begin(t) \/ CheckEmbedder(t) \/ CheckError(t) \/ Availability(t) \/ Acquire(t)
        \/ LockedCheck(t) \/ Import(t) \/ Load(t) \/ Encode(t)

SpecThreads == ThreadsInit /\ [][ThreadsNext]_vars

----------------------------------------------------------------------------
\* EmbeddingProvider.__init__: the resolution of the model path.  A path is
\* its text; expanduser, is_absolute and resolve are tabulated for the paths
\* used here (no symbolic links, no "..").

Cwd == "/cwd"
ConfigRoot == "/mindchat"
PackagedDir == "/pkg/app/counseling/models/paraphrase-multilingual-MiniLM-L12-v2"
FallbackDir == "/mindchat/models/embedding/paraphrase-multilingual-MiniLM-L12-v2"

\* os.getenv(MINDCHAT_EMBEDDING_MODEL_PATH): NONE when the variable is unset
Overrides == {NONE, "", "  ", "/env/model", "env/model", "~/env"}

\* get_setting(settings, "embedding.model_path"): any value, a string or not
PathSettings ==
    {[is_str |-> FALSE, value |-> ""]}
    \cup {[is_str |-> TRUE, value |-> v] : v \in {"", "  ", "/cfg/model", "models/emb", "~/emb"}}

ExpandUser(path) ==
    CASE path = "~/env" -> "/home/user/env"
      [] path = "~/emb" -> "/home/user/emb"
      [] OTHER -> path

IsAbsolute(path) == path \in {"/env/model", "/cfg/model", "/home/user/env", "/home/user/emb"}

\* (dir / path).resolve(), dir being the current directory for a bare resolve()
ResolveFrom(dir, path) == IF IsAbsolute(path) THEN path ELSE dir \o "/" \o path

\* settings.py lines 110-119; <<>> is None
resolve_path_setting(setting, root) ==
    IF ~setting.is_str \/ Strip(setting.value) = "" THEN <<>>
    ELSE <<ResolveFrom(root, ExpandUser(setting.value))>>

\* variant: the configuration is consulted before the environment
_resolve_model_path_config_first(override, setting, packaged_exists) ==
    IF resolve_path_setting(setting, ConfigRoot) # <<>>
    THEN resolve_path_setting(setting, ConfigRoot)[1]
    ELSE IF Truthy(override) THEN ResolveFrom(Cwd, ExpandUser(override))
    ELSE IF packaged_exists THEN PackagedDir
    ELSE FallbackDir

\* embedding.py lines 38-53
_resolve_model_path(override, setting, packaged_exists) ==
    IF Truthy(override) THEN ResolveFrom(Cwd, ExpandUser(override))
    ELSE IF resolve_path_setting(setting, ConfigRoot) # <<>>
    THEN resolve_path_setting(setting, ConfigRoot)[1]
    ELSE IF packaged_exists THEN PackagedDir
    ELSE FallbackDir

ResolveInit ==
    /\ cfg = DefaultConfig
    /\ state = EmptyState
    /\ origin = state
    /\ router = [retriever |-> FALSE, init_error |-> NONE]
    /\ retriever = [collection |-> FALSE, init_error |-> NONE]
    /\ embedder = [loaded |-> FALSE, init_error |-> NONE]
    /\ warnings = 0
    /\ base = NONE
    /\ disabled = FALSE
    /\ pc = "new"
    /\ last \in [override : Overrides, setting : PathSettings, packaged_exists : BOOLEAN,
                  model_path : {NONE}]
    /\ load_failure = <<>>
    /\ NoThreads
    /\ ledger = NoLedger

\* embedding.py lines 30-36
Construct ==
    /\ pc = "new"
    /\ pc' = "constructed"
    /\ last' = [last EXCEPT !.model_path =
                    _resolve_model_path(last.override, last.setting, last.packaged_exists)]
    /\ UNCHANGED <<cfg, state, origin, router, retriever, embedder, warnings, base, disabled,
                   load_failure, threads, lock, loads, opens, ledger>>

ResolveNext == Construct

SpecResolve == ResolveInit /\ [][ResolveNext]_vars

----------------------------------------------------------------------------
\* The first queries of several threads through one router, one step per
\* statement of _ensure_retriever and _ensure_collection.  Here router.retriever
\* is the number of the TopicRetriever held by self._retriever (0 for None),
\* retriever the sequence of the TopicRetriever instances created so far, got
\* the instance _ensure_retriever returned to the thread.

NewRetriever == [collection |-> FALSE, init_error |-> NONE]

OpenersInit ==
    /\ cfg = DefaultConfig
    /\ state = EmptyState
    /\ origin = state
    /\ router = [retriever |-> 0, init_error |-> NONE]
    /\ retriever = <<>>
    /\ embedder = [loaded |-> TRUE, init_error |-> NONE]
    /\ warnings = 0
    /\ base = NONE
    /\ disabled = FALSE
    /\ pc = "idle"
    /\ last = NoDirectCall
    /\ load_failure = <<>>
    /\ NoThreads
    /\ ledger = NoLedger

Unrouted == <<cfg, state, origin, embedder, warnings, base, disabled, pc, last, load_failure,
              lock, loads, ledger>>

\* topic_router.py line 74: build_prompt reaches self._ensure_retriever()
EnterQuery(t) ==
    /\ threads[t].pc \in {"idle", "done"}
    /\ threads[t].calls < MaxCalls
    /\ threads' = [threads EXCEPT ![t] = [IdleThread EXCEPT !.pc = "check_retriever",
                                                             !.calls = threads[t].calls + 1]]
    /\ UNCHANGED <<router, retriever, opens, Unrouted>>

\* topic_router.py lines 112-115
CheckRetriever(t) ==
    /\ threads[t].pc = "check_retriever"
    /\ threads' = IF router.retriever # 0
                  THEN [threads EXCEPT ![t].pc = "check_collection", ![t].got = router.retriever]
                  ELSE IF Truthy(router.init_error) THEN Raise(t, TRE)
                  ELSE [threads EXCEPT ![t].pc = "create_retriever"]
    /\ UNCHANGED <<router, retriever, opens, Unrouted>>

\* topic_router.py lines 117-122
CreateRetriever(t) ==
    /\ threads[t].pc = "create_retriever"
    /\ retriever' = Append(retriever, NewRetriever)
    /\ router' = [router EXCEPT !.retriever = Len(retriever) + 1]
    /\ threads' = [threads EXCEPT ![t].pc = "return_retriever"]
    /\ UNCHANGED <<opens, Unrouted>>

\* topic_router.py line 123: return self._retriever
ReturnRetriever(t) ==
    /\ threads[t].pc = "return_retriever"
    /\ threads' = [threads EXCEPT ![t].pc = "check_collection", ![t].got = router.retriever]
    /\ UNCHANGED <<router, retriever, opens, Unrouted>>

\* retriever.py lines 85-88
CheckCollection(t) ==
    /\ threads[t].pc = "check_collection"
    /\ threads' = IF retriever[threads[t].got].collection
                  THEN [threads EXCEPT ![t].pc = "run_query"]
                  ELSE IF Truthy(retriever[threads[t].got].init_error) THEN Raise(t, TRE)
                  ELSE [threads EXCEPT ![t].pc = "path_check"]
    /\ UNCHANGED <<router, retriever, opens, Unrouted>>

\* retriever.py lines 89-92
PathCheck(t) ==
    /\ threads[t].pc = "path_check"
    /\ \/ /\ threads' = [threads EXCEPT ![t].pc = "import_chroma"]
          /\ UNCHANGED retriever
       \/ /\ threads' = Raise(t, TRE)
          /\ retriever' = [retriever EXCEPT ![threads[t].got].init_error = DbMissingMessage]
    /\ UNCHANGED <<router, opens, Unrouted>>

\* retriever.py lines 94-99
ImportChroma(t) ==
    /\ threads[t].pc = "import_chroma"
    /\ \/ /\ threads' = [threads EXCEPT ![t].pc = "open_collection"]
          /\ UNCHANGED retriever
       \/ \E m \in Messages :
            /\ threads' = Raise(t, TRE)
            /\ retriever' = [retriever EXCEPT ![threads[t].got].init_error = m]
    /\ UNCHANGED <<router, opens, Unrouted>>

\* retriever.py lines 101-111
OpenCollection(t) ==
    /\ threads[t].pc = "open_collection"
    /\ \/ /\ threads' = [threads EXCEPT ![t].pc = "run_query"]
          /\ retriever' = [retriever EXCEPT ![threads[t].got].collection = TRUE]
          /\ opens' = Append(opens, threads[t].got)
       \/ \E m \in Messages :
            /\ threads' = Raise(t, TRE)
            /\ retriever' = [retriever EXCEPT ![threads[t].got].init_error = m]
            /\ UNCHANGED opens
    /\ UNCHANGED <<router, Unrouted>>

\* retriever.py lines 43-82: encode, collection.query and the filter loop
RunQuery(t) ==
    /\ threads[t].pc = "run_query"
    /\ \E exc \in {"", EME, TRE, OtherError} :
          threads' = [threads EXCEPT ![t].pc = "done", ![t].used = threads[t].got,
                                     ![t].exc = exc]
    /\ UNCHANGED <<router, retriever, opens, Unrouted>>

OpenersNext ==
    \E t \in Threads :
        \/ EnterQuery(t) \/ CheckRetriever(t) \/ CreateRetriever(t) \/ ReturnRetriever(t)
        \/ CheckCollection(t) \/ PathCheck(t) \/ ImportChroma(t) \/ OpenCollection(t)
        \/ RunQuery(t)

SpecOpeners == OpenersInit /\ [][OpenersNext]_vars

----------------------------------------------------------------------------
\* models.py: the topic state kept with a Conversation, Conversation.to_dict
\* and Conversation.from_dict.  A Python value is a record of its type, its
\* number (an int's value; a float's value in tenths) and its text (a str's
\* content; "inf" or "nan" for such a float; "huge" for an int beyond the
\* range of float).  A dict is the sequence of its items, a key of a payload
\* that is absent is <<>>, present with value v is <<v>>.

PyNone == [type |-> "NoneType", num |-> 0, text |-> ""]
PyList == [type |-> "list", num |-> 0, text |-> ""]
PyBool(b) == [type |-> "bool", num |-> IF b THEN 1 ELSE 0, text |-> ""]
PyInt(n) == [type |-> "int", num |-> n, text |-> ""]
PyHugeInt == [type |-> "int", num |-> 0, text |-> "huge"]
PyFloat(tenths) == [type |-> "float", num |-> tenths, text |-> ""]
PyInf == [type |-> "float", num |-> 0, text |-> "inf"]
PyNaN == [type |-> "float", num |-> 0, text |-> "nan"]
PyStr(s) == [type |-> "str", num |-> 0, text |-> s]

\* the strings of the model that float() and int() parse, with their values
FloatLiterals == ("2" :> 20) @@ (" 2 " :> 20) @@ ("1.5" :> 15)
IntLiterals == ("2" :> 2) @@ (" 2 " :> 2)

Raised(exc) == [exc |-> exc, value |-> PyNone]
Value(v) == [exc |-> "", value |-> v]

\* float(value)
float(v) ==
    CASE v.type = "float" -> Value(v)
      [] v.type \in {"int", "bool"} ->
            IF v.text = "huge" THEN Raised("OverflowError") ELSE Value(PyFloat(v.num * 10))
      [] v.type = "str" ->
            IF v.text \in DOMAIN FloatLiterals THEN Value(PyFloat(FloatLiterals[v.text]))
            ELSE IF v.text = "inf" THEN Value(PyInf)
            ELSE Raised("ValueError")
      [] OTHER -> Raised("TypeError")

\* int(value): a float is truncated towards zero
int(v) ==
    CASE v.type = "int" -> Value(v)
      [] v.type = "bool" -> Value(PyInt(v.num))
      [] v.type = "float" ->
            IF v.text = "inf" THEN Raised("OverflowError")
            ELSE IF v.text = "nan" THEN Raised("ValueError")
            ELSE Value(PyInt(IF v.num < 0 THEN 0 - ((0 - v.num) \div 10) ELSE v.num \div 10))
      [] v.type = "str" ->
            IF v.text \in DOMAIN IntLiterals THEN Value(PyInt(IntLiterals[v.text]))
            ELSE Raised("ValueError")
      [] OTHER -> Raised("TypeError")

\* the loop of lines 80-86 over raw_scores.items()
RECURSIVE ConvertItems(_, _)
ConvertItems(items, topic_scores) ==
    IF items = <<>> THEN [exc |-> "", items |-> topic_scores]
    ELSE LET item == Head(items)
             converted == float(item.value)
         IN  IF item.key.type # "str" THEN ConvertItems(Tail(items), topic_scores)
             ELSE IF converted.exc \in {"TypeError", "ValueError"}
             THEN ConvertItems(Tail(items), topic_scores)
             ELSE IF converted.exc # "" THEN [exc |-> converted.exc, items |-> <<>>]
             ELSE ConvertItems(Tail(items),
                               Append(topic_scores, [key |-> item.key, value |-> converted.value]))

EmptyDict == [is_dict |-> TRUE, items |-> <<>>]

\* lines 62-73, the three topic keys
to_dict(c) ==
    [topic_scores |-> <<[is_dict |-> TRUE, items |-> c.topic_scores]>>,
     topic_selected |-> <<c.topic_selected>>,
     topic_turns |-> <<c.topic_turns>>]

\* lines 75-105, the three topic fields; exc is the exception that leaves
\* from_dict, conv the Conversation returned (<<>> when it raises)
from_dict(payload) ==
    LET raw_scores == IF payload.topic_scores = <<>> THEN EmptyDict
                      ELSE payload.topic_scores[1]
        scores == IF raw_scores.is_dict THEN ConvertItems(raw_scores.items, <<>>)
                  ELSE [exc |-> "", items |-> <<>>]
        got_selected == IF payload.topic_selected = <<>> THEN PyNone
                        ELSE payload.topic_selected[1]
        topic_selected == IF got_selected.type # "str" THEN PyNone ELSE got_selected
        turns == int(IF payload.topic_turns = <<>> THEN PyInt(0) ELSE payload.topic_turns[1])
        topic_turns == IF turns.exc \in {"TypeError", "ValueError"} THEN Value(PyInt(0))
                       ELSE turns
    IN  IF scores.exc # "" THEN [exc |-> scores.exc, conv |-> <<>>]
        ELSE IF topic_turns.exc # "" THEN [exc |-> topic_turns.exc, conv |-> <<>>]
        ELSE [exc |-> "",
              conv |-> <<[topic_scores |-> scores.items, topic_selected |-> topic_selected,
                          topic_turns |-> topic_turns.value]>>]

\* what is restored and what is stored
MaxEntries == 2

ScoreKeys == {PyStr("anxiety"), PyStr("sleep"), PyInt(1)}

ScoreValues ==
    {PyFloat(15), PyInt(2), PyStr("1.5"), PyStr("abc"), PyNone, PyBool(TRUE), PyInf, PyHugeInt}

Dicts(keys, values) ==
    {items \in UNION {[1..n -> [key : keys, value : values]] : n \in 0..MaxEntries} :
        \A i, j \in 1..Len(items) : i # j => items[i].key # items[j].key}

Payloads ==
    [topic_scores : {<<>>, <<[is_dict |-> FALSE, items |-> <<>>]>>}
                    \cup {<<[is_dict |-> TRUE, items |-> items]>> :
                            items \in Dicts(ScoreKeys, ScoreValues)},
     topic_selected : {<<>>, <<PyNone>>, <<PyStr("anxiety")>>, <<PyStr("")>>, <<PyInt(3)>>},
     topic_turns : {<<>>, <<PyInt(2)>>, <<PyStr("2")>>, <<PyStr(" 2 ")>>, <<PyStr("1.5")>>,
                    <<PyStr("abc")>>, <<PyNone>>, <<PyList>>, <<PyBool(TRUE)>>,
                    <<PyFloat(27)>>, <<PyFloat(-27)>>, <<PyNaN>>, <<PyInf>>}]

\* conversations as the application builds them: float scores under topic
\* labels, a label or None, a turn count
Conversations ==
    [topic_scores : Dicts({PyStr("anxiety"), PyStr("ghost")}, {PyFloat(5), PyFloat(15)}),
     topic_selected : {PyNone, PyStr("anxiety"), PyStr("ghost")},
     topic_turns : {PyInt(n) : n \in 0..MaxTurns}]

NoPersistence ==
    [stored |-> <<>>, payload |-> <<>>, exc |-> "", conv |-> <<>>]

PersistInit ==
    /\ cfg = DefaultConfig
    /\ state = EmptyState
    /\ origin = state
    /\ router = [retriever |-> FALSE, init_error |-> NONE]
    /\ retriever = [collection |-> FALSE, init_error |-> NONE]
    /\ embedder = [loaded |-> FALSE, init_error |-> NONE]
    /\ warnings = 0
    /\ base = NONE
    /\ disabled = FALSE
    /\ pc = "new"
    /\ last = NoPersistence
    /\ load_failure = <<>>
    /\ NoThreads
    /\ ledger = NoLedger

\* Conversation.from_dict(payload) on a payload read from the history file
Restore ==
    /\ pc = "new"
    /\ \E payload \in Payloads :
       \E result \in {from_dict(payload)} :
          last' = [stored |-> <<>>, payload |-> <<payload>>, exc |-> result.exc,
                   conv |-> result.conv]
    /\ pc' = "restored"
    /\ UNCHANGED <<cfg, state, origin, router, retriever, embedder, warnings, base, disabled,
                   load_failure, threads, lock, loads, opens, ledger>>

\* Conversation.from_dict(c.to_dict())
RoundTrip ==
    /\ pc = "new"
    /\ \E c \in Conversations :
       \E result \in {from_dict(to_dict(c))} :
          last' = [stored |-> <<c>>, payload |-> <<to_dict(c)>>, exc |-> result.exc,
                   conv |-> result.conv]
    /\ pc' = "round_trip"
    /\ UNCHANGED <<cfg, state, origin, router, retriever, embedder, warnings, base, disabled,
                   load_failure, threads, lock, loads, opens, ledger>>

PersistNext == Restore \/ RoundTrip

SpecPersist == PersistInit /\ [][PersistNext]_vars

----------------------------------------------------------------------------
\* Claims.  While pc is not "idle", last holds the call the worker just made.

Called == pc # "idle"
Returned == Called /\ last.exc = ""
HasUpdate == Returned /\ last.update # <<>>
Commits == HasUpdate /\ last.update[1].selected_topic # NONE
FreshLineage == origin = EmptyState

\* the largest score among the entries of scores other than topic, 0 without any
RunnerUp(scores, topic) ==
    LET others == {scores[i].score : i \in {j \in 1..Len(scores) : scores[j].topic # topic}}
    IN  IF others = {} THEN 0 ELSE CHOOSE s \in others : \A r \in others : r <= s

\* C1: an update that selects topic t has, in its scores, t with the highest
\* score, that score >= score_threshold, and a lead over the runner-up (0 when
\* t is the only scored topic) >= margin_threshold.
C1_CommitNeedsScoreAndMargin ==
    Commits =>
        LET u == last.update[1]
            top_score == ScoreOf(u.scores, u.selected_topic)
        IN  /\ HasTopic(u.scores, u.selected_topic)
            /\ \A i \in 1..Len(u.scores) : u.scores[i].score <= top_score
            /\ top_score >= cfg.score_threshold
            /\ top_score - RunnerUp(u.scores, u.selected_topic) >= cfg.margin_threshold

\* a commitment with a competing topic, the lead exactly on the margin
C1_Witness ==
    /\ Commits
    /\ Len(last.update[1].scores) >= 2
    /\ ScoreOf(last.update[1].scores, last.update[1].selected_topic)
         - RunnerUp(last.update[1].scores, last.update[1].selected_topic) = cfg.margin_threshold
    /\ cfg.margin_threshold > 0

\* C2: on a lineage that starts from turns = 0 with no topic, no update selects
\* a topic while its turns value is below min_user_turns.
C2_NoCommitBeforeMinTurns ==
    (FreshLineage /\ Commits) => last.update[1].turns >= cfg.min_user_turns

\* a commitment on the very turn that reaches min_user_turns = 2
C2_Witness ==
    /\ FreshLineage /\ Commits
    /\ cfg.min_user_turns = 2
    /\ last.update[1].turns = 2

\* C3: no update selects a topic without a non-empty fragment in the catalog.
C3_SelectedTopicHasFragment ==
    Commits => CatalogGet(last.update[1].selected_topic) \notin {"", NONE}

\* the top-ranked topic passes the policy after enough turns, has no fragment,
\* and the update leaves the topic unset
C3_Witness ==
    /\ HasUpdate
    /\ last.update[1].selected_topic = NONE
    /\ last.update[1].turns >= cfg.min_user_turns
    /\ cfg.score_threshold > 0
    /\ HasTopic(last.update[1].scores, "ghost")
    /\ ScoreOf(last.update[1].scores, "ghost") >= cfg.score_threshold
    /\ ScoreOf(last.update[1].scores, "ghost") - RunnerUp(last.update[1].scores, "ghost")
         >= cfg.margin_threshold
    /\ \A i \in 1..Len(last.update[1].scores) :
           last.update[1].scores[i].topic # "ghost" =>
               last.update[1].scores[i].score < ScoreOf(last.update[1].scores, "ghost")

\* the prompt composition rule of the specification, as a function
ComposedPrompt(base_prompt, fragment) ==
    IF base_prompt \notin {NONE, ""} /\ fragment # ""
    THEN base_prompt \o "\n\n" \o fragment
    ELSE IF fragment # "" THEN fragment ELSE base_prompt

\* C4: a call on a state whose selected_topic is set returns no update, makes
\* no embedding or index call, leaves router, retriever and embedder as they
\* were, and returns the composition of the base prompt and the topic's
\* fragment: a function of the base prompt and the topic, so the same on
\* every repetition.
C4_CommittedCallIsIdempotent ==
    [][(pc = "idle" /\ pc' # "idle" /\ state.selected_topic \notin {NONE, ""}) =>
          /\ last'.exc = ""
          /\ last'.update = <<>>
          /\ last'.ops = <<>>
          /\ router' = router /\ retriever' = retriever /\ embedder' = embedder
          /\ warnings' = warnings
          /\ last'.prompt = ComposedPrompt(base, CatalogGet(state.selected_topic))]_vars

\* a call on a state that routing itself committed, returning base + fragment
C4_Witness ==
    /\ Called
    /\ FreshLineage
    /\ last.state_in.selected_topic = "anxiety"
    /\ last.prompt = "BASE\n\nANXIETY-FRAGMENT"
    /\ router.retriever

\* C5: once the state's selected_topic is a topic, it is the same topic in
\* every later state.
C5_StickyCommitment ==
    [][state.selected_topic \notin {NONE, ""} =>
          state'.selected_topic = state.selected_topic]_vars

\* a later call has returned on a state that routing committed
C5_Witness ==
    /\ FreshLineage
    /\ pc = "finished"
    /\ state.selected_topic = "sleep"
    /\ last.state_in.selected_topic = "sleep"

\* C6: in every update each topic of the input scores is still present, with a
\* score >= its score in the input state.
C6_ScoresNeverDecrease ==
    HasUpdate =>
        \A i \in 1..Len(last.state_in.scores) :
            LET e == last.state_in.scores[i]
            IN  HasTopic(last.update[1].scores, e.topic)
                /\ ScoreOf(last.update[1].scores, e.topic) >= e.score

\* an update that raises one topic and keeps another that was not matched
C6_Witness ==
    /\ HasUpdate
    /\ HasTopic(last.state_in.scores, "anxiety") /\ HasTopic(last.state_in.scores, "sleep")
    /\ ScoreOf(last.update[1].scores, "anxiety") > ScoreOf(last.state_in.scores, "anxiety")
    /\ ScoreOf(last.update[1].scores, "sleep") = ScoreOf(last.state_in.scores, "sleep")

\* C7: when the embedding provider raises EmbeddingModelError or the retriever
\* raises TopicRetrievalError, build_prompt returns the base prompt unchanged
\* and no update, and the state after the turn is the state before it.
C7_DependencyErrorDegrades ==
    [][(Called /\ last.caught \in {EME, TRE}) =>
          /\ last.exc = ""
          /\ last.prompt = last.base
          /\ last.update = <<>>
          /\ state' = state]_vars

\* a retrieval failure on a lineage that had already accumulated a turn
C7_Witness ==
    /\ pc = "finished"
    /\ last.caught = TRE
    /\ FreshLineage
    /\ state.turns >= 1
    /\ state.scores # <<>>
    /\ state.selected_topic = NONE

\* C8: every routing failure ends in a result, never in an exception: LLMWorker
\* emits failed only when generate_reply itself was reached.
C8_RoutingFailureNeverReachesUser ==
    pc = "failed" => last.generated

\* C9: once a dependency failure has degraded a call on the router instance,
\* every later call that would query returns the base prompt, no update, and
\* performs no embedding or index operation.  (Stated of the calls that
\* return, so that the escaping exceptions of C8 are not what refutes it.)
C9_DisabledForever ==
    (Returned /\ last.was_disabled /\ ReachesQuery(last.state_in, last.messages)) =>
        /\ last.prompt = last.base
        /\ last.update = <<>>
        /\ last.ops = <<>>

\* C10: the "Topic routing disabled" warning is logged at most once.
C10_WarningLoggedAtMostOnce ==
    warnings <= 1

\* C11: with no user-role message in the session and no topic selected, the
\* call returns the base prompt unchanged and no update, performs no
\* embedding or index operation and leaves router, retriever and embedder as
\* they were.
C11_NoUserMessageNoRouting ==
    [][(pc = "idle" /\ pc' # "idle" /\ state.selected_topic \in {NONE, ""}
        /\ \A i \in 1..Len(last'.messages) : last'.messages[i].role # "user") =>
          /\ last'.exc = ""
          /\ last'.prompt = base
          /\ last'.update = <<>>
          /\ last'.ops = <<>>
          /\ router' = router /\ retriever' = retriever /\ embedder' = embedder]_vars

\* such a call on a conversation that has scores but no topic yet, its only
\* message written by the assistant
C11_Witness ==
    /\ Called
    /\ last.messages = <<[role |-> "assistant", content |-> "hi"]>>
    /\ last.state_in.selected_topic = NONE
    /\ last.state_in.scores # <<>>
    /\ last.prompt = "BASE"

\* C12: under the default configuration (min_user_turns 2, distance threshold
\* 1.1, score threshold 1.2, margin 0.4) and from the empty state, a first call
\* whose only match is anxiety at distance 0.3 does not commit, and a second
\* call on the merged state whose only match is anxiety at distance 0.2
\* commits to anxiety with the score 17/11 and returns base prompt + fragment.
C12_FirstTurn ==
    /\ Returned /\ last.caught = ""
    /\ last.state_in = EmptyState
    /\ last.matches = <<[topic |-> "anxiety", distance |-> 3]>>

C12_SecondTurn ==
    /\ Returned /\ last.caught = ""
    /\ last.state_in = [scores |-> <<[topic |-> "anxiety", score |-> (8 * ScoreScale) \div 11]>>,
                        selected_topic |-> NONE, turns |-> 1]
    /\ last.matches = <<[topic |-> "anxiety", distance |-> 2]>>

C12_TwoTurnScenario ==
    /\ cfg = [min_user_turns |-> 2, distance_threshold |-> 11,
              score_threshold |-> (12 * ScoreScale) \div 10,
              margin_threshold |-> (4 * ScoreScale) \div 10, top_k |-> 3]
    /\ C12_FirstTurn =>
          /\ last.prompt = last.base
          /\ last.update =
                <<[scores |-> <<[topic |-> "anxiety", score |-> (8 * ScoreScale) \div 11]>>,
                   selected_topic |-> NONE, turns |-> 1]>>
    /\ C12_SecondTurn =>
          /\ last.prompt = ComposedPrompt(last.base, "ANXIETY-FRAGMENT")
          /\ last.update =
                <<[scores |-> <<[topic |-> "anxiety", score |-> (17 * ScoreScale) \div 11]>>,
                   selected_topic |-> "anxiety", turns |-> 2]>>

\* the second turn of the scenario, reached through the first
C12_Witness ==
    /\ C12_SecondTurn
    /\ pc = "finished"
    /\ last.prompt = "BASE\n\nANXIETY-FRAGMENT"

\* C13: when the turns value of an update has reached min_user_turns and the
\* topic ranked first by accumulated score has a non-empty fragment, a score
\* >= score_threshold and a lead over the runner-up >= margin_threshold (both
\* with equality allowed), the update carries that topic as selected_topic.
C13_Eligible ==
    /\ HasUpdate
    /\ last.update[1].turns >= cfg.min_user_turns
    /\ last.update[1].scores # <<>>
    /\ LET u == last.update[1]
           top == u.scores[TopIndex(u.scores)]
       IN  /\ CatalogGet(top.topic) # ""
           /\ top.score >= cfg.score_threshold
           /\ top.score - RunnerUp(u.scores, top.topic) >= cfg.margin_threshold

C13_EligibleTopicIsCommitted ==
    C13_Eligible =>
        last.update[1].selected_topic = last.update[1].scores[TopIndex(last.update[1].scores)].topic

\* a commitment with the score exactly on score_threshold and the lead exactly
\* on margin_threshold
C13_Witness ==
    /\ C13_Eligible
    /\ Len(last.update[1].scores) >= 2
    /\ LET u == last.update[1]
           top == u.scores[TopIndex(u.scores)]
       IN  /\ top.score = cfg.score_threshold
           /\ top.score - RunnerUp(u.scores, top.topic) = cfg.margin_threshold
           /\ cfg.margin_threshold > 0
           /\ u.selected_topic = top.topic

\* C14: TopicRetriever.query returns at most top_k matches, for every top_k,
\* threshold and raw result list.  Stated for top_k >= 0: below zero no list
\* is short enough, so the statement can only be kept from zero upwards.
C14_AtMostTopK ==
    (pc = "returned" /\ last.kind = "query" /\ last.exc = "" /\ last.top_k >= 0) =>
        Len(last.matches) <= last.top_k

\* C15: no two matches returned by query have the same topic, and no match
\* has a missing or empty topic.
C15_DistinctNonEmptyTopics ==
    (pc = "returned" /\ last.kind = "query") =>
        /\ \A i, j \in 1..Len(last.matches) :
              last.matches[i].topic = last.matches[j].topic => i = j
        /\ \A i \in 1..Len(last.matches) :
              last.matches[i].topic # "" /\ last.matches[i].topic # NONE

\* two raw results of one topic within the threshold, room for both in top_k
C15_Witness ==
    /\ pc = "returned" /\ last.kind = "query"
    /\ last.top_k >= 2
    /\ last.raw = <<[topic |-> "anxiety", dist |-> <<0>>], [topic |-> "anxiety", dist |-> <<6>>]>>
    /\ last.distance_threshold = 11
    /\ last.matches = <<[topic |-> "anxiety", distance |-> 0]>>

\* C16: every match returned by query has a distance <= distance_threshold
\* and is a raw result with a distance: raw results without a distance or
\* beyond the threshold are not returned.
C16_WithinThreshold ==
    (pc = "returned" /\ last.kind = "query") =>
        \A i \in 1..Len(last.matches) :
            /\ last.matches[i].distance <= last.distance_threshold
            /\ \E k \in 1..Len(last.raw) :
                  /\ last.raw[k].topic = last.matches[i].topic
                  /\ last.raw[k].dist = <<last.matches[i].distance>>

\* a raw result beyond the threshold and one without distance, next to one kept
C16_Witness ==
    /\ pc = "returned" /\ last.kind = "query"
    /\ last.distance_threshold = 0
    /\ last.top_k >= 2
    /\ last.raw = <<[topic |-> "anxiety", dist |-> <<0>>], [topic |-> "sleep", dist |-> <<6>>]>>
    /\ last.matches = <<[topic |-> "anxiety", distance |-> 0]>>

\* C17: query with empty text returns an empty list, raises nothing, performs
\* no operation on the store or the model and leaves retriever and provider
\* as they were, also when an initialisation failure is cached.
C17_EmptyTextTouchesNothing ==
    [][(pc = "idle" /\ last'.kind = "query" /\ last'.text = "") =>
          /\ last'.exc = ""
          /\ last'.matches = <<>>
          /\ last'.ops = <<>>
          /\ retriever' = retriever
          /\ embedder' = embedder]_vars

\* an empty-text query on a retriever with a cached initialisation failure
C17_Witness ==
    /\ pc = "returned" /\ last.kind = "query" /\ last.text = ""
    /\ Truthy(retriever.init_error)
    /\ ~retriever.collection
    /\ last.exc = "" /\ last.matches = <<>>

\* C19: once a load attempt of the provider has failed, every later encode
\* raises EmbeddingModelError with the text of that failure and performs no
\* load (neither local load nor remote fetch).
C19_FailedLoadIsFinal ==
    [][(pc = "idle" /\ load_failure # <<>> /\ last'.kind = "encode") =>
          /\ last'.exc = EME
          /\ last'.msg = load_failure[1].msg
          /\ \A i \in 1..Len(last'.ops) : last'.ops[i] \notin {"load_local", "download"}]_vars

\* C18: under every interleaving of encode calls of several threads, at most
\* one loader call returns a model; when no loader call fails the loader is
\* called at most once; and every call encodes with the instance held by the
\* provider.
C18_LoadedOnce ==
    /\ CurrentModel <= 1
    /\ (\A i \in 1..Len(loads) : loads[i]) => Len(loads) <= 1
    /\ \A t \in Threads : threads[t].used # 0 => threads[t].used = CurrentModel

\* a thread that passed the unlocked tests before the load ended holds the
\* lock, while another thread has encoded with the loaded model
C18_Witness ==
    /\ loads = <<TRUE>>
    /\ \E t, u \in Threads :
          /\ threads[t].pc = "locked_check" /\ lock = t
          /\ threads[u].pc = "done" /\ threads[u].used = 1 /\ threads[u].exc = ""

\* C20: a thread that waited for the lock while its holder failed the load
\* does not go on to call the loader itself, once a loader call has failed
\* and the failure is cached with a text.
C20_WaitersDoNotLoad ==
    \A t \in Threads :
        (threads[t].waited /\ Truthy(embedder.init_error) /\ loads # <<>>) =>
            threads[t].pc # "load"

\* C21: when several threads issue their first query through one router, at
\* most one TopicRetriever is created and the store is opened at most once.
C21_OpenedOnce ==
    /\ Len(retriever) <= 1
    /\ Len(opens) <= 1

\* C22: once opening the index has failed on a TopicRetriever (its _init_error
\* is set), every later query with a non-empty text raises TopicRetrievalError
\* with the cached text and neither checks the path nor opens the store.
C22_FailedOpenIsFinal ==
    [][(pc = "idle" /\ retriever.init_error # NONE /\ ~retriever.collection
        /\ last'.kind = "query" /\ last'.text # "") =>
          /\ last'.exc = TRE
          /\ last'.msg = retriever.init_error
          /\ last'.ops = <<>>]_vars

\* C23: a call that loads from the existing model path never fetches the model
\* remotely, and a failure of that load leaves the call as EmbeddingModelError.
C23_LocalLoadOnly ==
    (pc = "returned" /\ \E i \in 1..Len(last.ops) : last.ops[i] = "load_local") =>
        /\ \A i \in 1..Len(last.ops) : last.ops[i] # "download"
        /\ (last.exc # "" /\ last.ops[Len(last.ops)] = "load_local") => last.exc = EME

\* C24: when the model path does not exist and the remote fetch succeeds,
\* the load succeeds and the call goes on to encode with the fetched model,
\* also when caching the model on disk fails; that failure is only logged.
C24_SaveFailureIsNotFatal ==
    (pc = "returned" /\ last.kind = "encode"
     /\ \E i \in 1..Len(last.ops) : last.ops[i] = "save") =>
        /\ embedder.loaded
        /\ last.ops[Len(last.ops)] = "encode"
        /\ last.exc # EME

\* the fetched model could not be cached, and encode has returned vectors
C24_Witness ==
    /\ pc = "returned" /\ last.kind = "encode"
    /\ last.ops = <<"download", "save", "log_warning", "encode">>
    /\ last.exc = ""
    /\ embedder.loaded

\* C25: the model path is the environment override when it is non-empty;
\* otherwise the embedding.model_path of the configuration when it is a
\* non-blank string; otherwise the packaged directory when it exists on disk;
\* otherwise the fallback directory under the model cache.
C25_NonBlankSetting == last.setting.is_str /\ last.setting.value \notin {"", "  "}

C25_FirstTierWins ==
    pc = "constructed" =>
        /\ (last.override \notin {NONE, ""}) =>
              last.model_path = ResolveFrom(Cwd, ExpandUser(last.override))
        /\ (last.override \in {NONE, ""} /\ C25_NonBlankSetting) =>
              last.model_path = ResolveFrom(ConfigRoot, ExpandUser(last.setting.value))
        /\ (last.override \in {NONE, ""} /\ ~C25_NonBlankSetting /\ last.packaged_exists) =>
              last.model_path = PackagedDir
        /\ (last.override \in {NONE, ""} /\ ~C25_NonBlankSetting /\ ~last.packaged_exists) =>
              last.model_path = FallbackDir

\* the environment override wins over a configured path and an existing
\* packaged directory
C25_Witness ==
    /\ pc = "constructed"
    /\ last.override = "env/model"
    /\ last.setting = [is_str |-> TRUE, value |-> "/cfg/model"]
    /\ last.packaged_exists
    /\ last.model_path = "/cwd/env/model"

\* C26: for a positive threshold _distance_to_score does not increase with
\* the distance, is 0 from the threshold on and is 1 at distance 0; for a
\* threshold <= 0 it is 0 everywhere; and under a distance_threshold <= 0 the
\* scores of an update returned by build_prompt are those of the input state.
C26_ScoreOfDistance ==
    /\ pc = "scored" =>
          /\ last.threshold <= 0 => (last.near_score = 0 /\ last.far_score = 0)
          /\ (last.threshold > 0 /\ last.far >= last.threshold) => last.far_score = 0
          /\ last.threshold > 0 => last.zero_score = ScoreScale
          /\ last.threshold > 0 => last.near_score >= last.far_score
    /\ (pc \in {"finished", "failed"} /\ HasUpdate /\ cfg.distance_threshold <= 0) =>
          last.update[1].scores = last.state_in.scores

\* a turn under distance_threshold = 0 whose query returned a match
C26_Witness ==
    /\ pc = "finished" /\ HasUpdate
    /\ cfg.distance_threshold = 0
    /\ last.matches # <<>>
    /\ last.state_in.scores # <<>>
    /\ last.update[1].scores = last.state_in.scores

\* C27: on the committing turn and on a call on a committed state the prompt
\* is base + blank line + fragment when both are non-empty, the non-empty one
\* when only one is, and empty or absent when neither is; on every other call
\* it is the base prompt unchanged.
C27_Composed(prompt, base_prompt, fragment) ==
    /\ (base_prompt \notin {NONE, ""} /\ fragment # "") =>
          prompt = base_prompt \o "\n\n" \o fragment
    /\ (base_prompt \notin {NONE, ""} /\ fragment = "") => prompt = base_prompt
    /\ (base_prompt \in {NONE, ""} /\ fragment # "") => prompt = fragment
    /\ (base_prompt \in {NONE, ""} /\ fragment = "") => prompt \in {NONE, ""}

C27_PromptComposition ==
    Returned =>
        IF last.state_in.selected_topic \notin {NONE, ""}
        THEN C27_Composed(last.prompt, last.base, CatalogGet(last.state_in.selected_topic))
        ELSE IF Commits
        THEN C27_Composed(last.prompt, last.base, CatalogGet(last.update[1].selected_topic))
        ELSE last.prompt = last.base

\* a committing turn without base prompt: the prompt is the fragment alone
C27_Witness ==
    /\ Commits
    /\ last.base \in {NONE, ""}
    /\ last.state_in.selected_topic = NONE
    /\ last.prompt = CatalogGet(last.update[1].selected_topic)
    /\ last.prompt # ""

\* C28: build_prompt leaves the TopicState it receives as it was (scores,
\* selected_topic and turns), and the scores of a returned update are not the
\* dict object of the input state.
C28_StateIsNotMutated ==
    [][(pc = "idle" /\ pc' \in {"finished", "failed"}) =>
          /\ state' = state
          /\ last'.state_in = state
          /\ last'.in_place = <<>>]_vars

\* a turn that adds a score to a state that already has scores
C28_Witness ==
    /\ HasUpdate
    /\ last.state_in.scores # <<>>
    /\ last.update[1].scores # last.state_in.scores
    /\ state = last.state_in
    /\ last.in_place = <<>>

\* C29: for top_k >= 1 the matches of query are the first top_k entries of
\* the list got from the raw neighbours, requested with n_results =
\* max(top_k, 20), by dropping the entries without distance, beyond the
\* threshold or without topic and then keeping the first entry of each topic;
\* they are in the raw order, so nearest first.
C29_Kept(raw, distance_threshold) ==
    SelectSeq(raw, LAMBDA entry : /\ entry.dist # <<>>
                                  /\ entry.dist[1] <= distance_threshold
                                  /\ entry.topic # "")

C29_FirstOfTopic(kept) ==
    {i \in 1..Len(kept) : \A j \in 1..(i - 1) : kept[j].topic # kept[i].topic}

C29_Expected(raw, top_k, distance_threshold) ==
    LET kept == C29_Kept(raw, distance_threshold)
        firsts == C29_FirstOfTopic(kept)
        nth(k) == CHOOSE i \in firsts : Cardinality({j \in firsts : j < i}) = k - 1
        size == IF top_k < Cardinality(firsts) THEN top_k ELSE Cardinality(firsts)
    IN  [k \in 1..size |-> [topic |-> kept[nth(k)].topic, distance |-> kept[nth(k)].dist[1]]]

C29_FirstTopKOfFiltered ==
    (pc = "returned" /\ last.kind = "query" /\ last.exc = "" /\ last.text # ""
     /\ last.top_k >= 1) =>
        /\ last.n_results = (IF last.top_k > 20 THEN last.top_k ELSE 20)
        /\ last.matches = C29_Expected(last.raw, last.top_k, last.distance_threshold)
        /\ \A i, j \in 1..Len(last.matches) :
              i < j => last.matches[i].distance <= last.matches[j].distance

\* two raw results of different topics pass the filters, top_k keeps the nearer
C29_Witness ==
    /\ pc = "returned" /\ last.kind = "query" /\ last.exc = ""
    /\ last.top_k = 1
    /\ last.distance_threshold = 11
    /\ last.raw = <<[topic |-> "anxiety", dist |-> <<0>>], [topic |-> "sleep", dist |-> <<6>>]>>
    /\ last.matches = <<[topic |-> "anxiety", distance |-> 0]>>

\* C30: when, on a turn that may decide, the topic ranked first on the
\* accumulated scores passes the score and margin thresholds but has no
\* fragment, build_prompt returns the base prompt and an update with no
\* selected topic, the accumulated scores and turns = state.turns + 1.  A
\* later turn on the merged state can commit to another topic (C30_Witness).
C30_Passes(scores) ==
    /\ scores # <<>>
    /\ scores[TopIndex(scores)].score >= cfg.score_threshold
    /\ scores[TopIndex(scores)].score - RunnerUp(scores, scores[TopIndex(scores)].topic)
          >= cfg.margin_threshold

C30_VoidTurn ==
    /\ Returned /\ last.caught = ""
    /\ last.state_in.selected_topic \in {NONE, ""}
    /\ \E i \in 1..Len(last.ops) : last.ops[i] = "index_query"
    /\ last.state_in.turns + 1 >= cfg.min_user_turns
    /\ LET scores == _accumulate_scores(last.state_in.scores, last.matches,
                                        cfg.distance_threshold)
       IN  C30_Passes(scores) /\ CatalogGet(scores[TopIndex(scores)].topic) = ""

C30_VoidCommitment ==
    C30_VoidTurn =>
        /\ last.prompt = last.base
        /\ last.update =
              <<[scores |-> _accumulate_scores(last.state_in.scores, last.matches,
                                               cfg.distance_threshold),
                 selected_topic |-> NONE,
                 turns |-> last.state_in.turns + 1]>>

\* the turn after a void one: the state it starts from was produced by a
\* deciding turn on which "ghost" ranked first and passed, and it commits to
\* another topic
C30_Witness ==
    /\ FreshLineage /\ Commits
    /\ last.state_in.turns >= cfg.min_user_turns
    /\ last.state_in.selected_topic = NONE
    /\ C30_Passes(last.state_in.scores)
    /\ last.state_in.scores[TopIndex(last.state_in.scores)].topic = "ghost"
    /\ last.update[1].selected_topic = "anxiety"
    /\ ScoreOf(last.update[1].scores, "ghost") = ScoreOf(last.state_in.scores, "ghost")

\* C31: build_prompt returns an update exactly when the state that results
\* from merging it differs from the input state.  A call on a committed
\* state, without a non-blank user message, or whose retrieval failed
\* returns no update and leaves the state as it was; every other call, even
\* with zero matches, returns an update with turns = state.turns + 1.
C31_Accumulated ==
    Returned /\ last.caught = "" /\ ReachesQuery(last.state_in, last.messages)

C31_UpdateIffChanged ==
    /\ HasUpdate => MergeUpdate(last.state_in, last.update) # last.state_in
    /\ C31_Accumulated =>
          /\ HasUpdate
          /\ last.update[1].turns = last.state_in.turns + 1
    /\ (Returned /\ ~C31_Accumulated) =>
          /\ last.update = <<>>
          /\ state = last.state_in

\* a successful retrieval without matches: the scores and the selection are
\* those of the input state, the update is returned for the turn count alone
C31_Witness ==
    /\ C31_Accumulated
    /\ last.matches = <<>>
    /\ HasUpdate
    /\ last.update[1].scores = last.state_in.scores
    /\ last.update[1].selected_topic = last.state_in.selected_topic
    /\ last.update[1].turns = last.state_in.turns + 1

\* C32 as claimed: for every configuration, a turn whose accumulation leaves
\* the two highest scores equal commits to no topic, and its update carries
\* the accumulated scores and turns = state.turns + 1.
C32_Scores ==
    _accumulate_scores(last.state_in.scores, last.matches, cfg.distance_threshold)

C32_Tie ==
    /\ C31_Accumulated
    /\ Len(C32_Scores) >= 2
    /\ \E i, j \in 1..Len(C32_Scores) :
          /\ i # j
          /\ C32_Scores[i].score = C32_Scores[j].score
          /\ \A k \in 1..Len(C32_Scores) : C32_Scores[k].score <= C32_Scores[i].score

C32_Advances ==
    last.update = <<[scores |-> C32_Scores, selected_topic |-> NONE,
                     turns |-> last.state_in.turns + 1]>>

C32_TieNeverCommits == C32_Tie => C32_Advances

\* C32 amended: the same under a configuration whose margin_threshold is
\* positive.
C32_TieUnderPositiveMargin ==
    (C32_Tie /\ cfg.margin_threshold > 0) => C32_Advances

\* a tie on a turn that may decide, at a score that passes score_threshold:
\* only the margin stands against the commitment
C32_Witness ==
    /\ C32_Tie /\ cfg.margin_threshold > 0
    /\ last.state_in.turns + 1 >= cfg.min_user_turns
    /\ C32_Scores[TopIndex(C32_Scores)].score >= cfg.score_threshold
    /\ CatalogGet(C32_Scores[TopIndex(C32_Scores)].topic) # ""
    /\ last.matches # <<>>
    /\ C32_Advances

\* C33: on a conversation that starts from the empty state and merges every
\* returned update before the next call, between calls the state's turns is
\* the number of calls whose retrieval succeeded, and each topic's score is
\* the sum of the positive increments it received in those calls (a topic
\* has an entry exactly when that sum is positive).
C33_Serialised == FreshLineage /\ ledger.merged /\ pc = "idle"

C33_RunningTotals ==
    C33_Serialised =>
        /\ state.turns = ledger.calls
        /\ \A t \in Topics :
              /\ ScoreOf(state.scores, t) = ledger.sums[t]
              /\ HasTopic(state.scores, t) <=> ledger.sums[t] > 0
        /\ \A i \in 1..Len(state.scores) : state.scores[i].topic \in Topics

\* two counted calls routed the same user message, and anxiety was credited
\* in both
C33_Witness ==
    /\ C33_Serialised
    /\ cfg = DefaultConfig
    /\ ledger.calls = 2
    /\ Cardinality(ledger.users) = 1
    /\ state.turns = 2
    /\ ScoreOf(state.scores, "anxiety") = 100
    /\ ScoreOf(state.scores, "sleep") = 50

\* C34 as claimed: within a build_prompt call that retrieves, the index is
\* touched (opened, queried) only after the embedding model has encoded the
\* utterance.
C34_EmbedderOps == {"load_local", "download", "save", "log_warning", "encode"}

C34_EncodedBefore(i) == \E j \in 1..(i - 1) : last.ops[j] = "encode"

C34_EncodeBeforeIndex ==
    (Returned /\ last.caught = "") => \A i \in 1..Len(last.ops) :
                 last.ops[i] \in {"open_collection", "index_query"} => C34_EncodedBefore(i)

\* C34 amended: within a build_prompt call the collection is opened, when it
\* is not open yet, before the embedding model is used at all; the utterance
\* is encoded with the collection open, and the similarity query runs only
\* after the encoding.
C34_OpenThenEncodeThenQuery ==
    Called => \A i \in 1..Len(last.ops) :
                 /\ last.ops[i] = "index_query" => C34_EncodedBefore(i)
                 /\ last.ops[i] = "open_collection" =>
                       \A j \in 1..(i - 1) : last.ops[j] \notin C34_EmbedderOps
                 /\ last.ops[i] = "encode" => retriever.collection

\* the first successful retrieval of a router: open, load and encode, query
C34_Witness ==
    /\ Returned /\ last.caught = ""
    /\ \E i, j, k \in 1..Len(last.ops) :
          /\ i < j /\ j < k
          /\ last.ops[i] = "open_collection"
          /\ last.ops[j] = "encode"
          /\ last.ops[k] = "index_query"

\* C35 as claimed: when the most recent user-role message of the session is
\* empty or whitespace-only, build_prompt returns the base prompt unchanged,
\* no update, and calls no dependency, whatever comes before or after it.
C35_LatestUserIsBlank ==
    /\ Called
    /\ \E i \in 1..Len(last.messages) :
          /\ last.messages[i].role = "user"
          /\ Strip(last.messages[i].content) = ""
          /\ \A j \in (i + 1)..Len(last.messages) : last.messages[j].role # "user"

C35_BaseOnly ==
    /\ last.exc = ""
    /\ last.prompt = last.base
    /\ last.update = <<>>
    /\ last.ops = <<>>

C35_BlankLatestUserMessage == C35_LatestUserIsBlank => C35_BaseOnly

\* C35 amended: the same, when no topic is selected in the state passed in.
C35_BlankLatestUserMessageUncommitted ==
    (C35_LatestUserIsBlank /\ last.state_in.selected_topic \in {NONE, ""}) => C35_BaseOnly

\* an earlier user message has text, the latest is empty and an assistant
\* message follows it
C35_Witness ==
    /\ C35_LatestUserIsBlank
    /\ last.state_in.selected_topic = NONE
    /\ Len(last.messages) = 3
    /\ last.messages[1] = [role |-> "user", content |-> "hello"]
    /\ last.messages[3].role = "assistant"
    /\ last.base = "BASE"
    /\ C35_BaseOnly

\* C36: on a lineage that starts from an empty scores map, every entry of
\* the scores of every returned update is strictly positive, and a match
\* whose increment is zero (its distance equals the threshold, or the
\* threshold is not positive) creates no entry for its topic.
C36_ZeroIncrement(match) ==
    \/ cfg.distance_threshold <= 0
    \/ match.distance = cfg.distance_threshold

C36_OnlyPositiveEntries ==
    (origin.scores = <<>> /\ HasUpdate) =>
        /\ \A i \in 1..Len(last.update[1].scores) : last.update[1].scores[i].score > 0
        /\ \A i \in 1..Len(last.matches) :
              (C36_ZeroIncrement(last.matches[i])
               /\ ~HasTopic(last.state_in.scores, last.matches[i].topic))
                 => ~HasTopic(last.update[1].scores, last.matches[i].topic)

\* one match is credited, another lies exactly at a positive threshold and
\* leaves no entry
C36_Witness ==
    /\ origin.scores = <<>> /\ HasUpdate
    /\ cfg.distance_threshold > 0
    /\ last.update[1].scores # <<>>
    /\ \E i \in 1..Len(last.matches) :
          /\ last.matches[i].distance = cfg.distance_threshold
          /\ ~HasTopic(last.update[1].scores, last.matches[i].topic)

\* C37: every call on the committed state that results from merging a
\* committing update returns, for the same base prompt, the prompt the
\* committing call returned.
C37_LaterCall ==
    /\ Returned
    /\ ledger.merged /\ ledger.committed # <<>>
    /\ IsCommitted(last.state_in)
    /\ last.base = base

C37_SamePromptAfterCommit ==
    C37_LaterCall => last.prompt = ledger.committed[1]

\* a later call under a non-empty base prompt: the prompt is more than the
\* base prompt
C37_Witness ==
    /\ C37_LaterCall
    /\ FreshLineage
    /\ last.base = "BASE"
    /\ last.prompt # last.base
    /\ last.prompt = ledger.committed[1]

\* C38: while the state's selected_topic is a non-empty label without
\* catalog fragment, every build_prompt call returns the base prompt and no
\* update, performs no operation on router, retriever or embedder, and the
\* state stays as it is: no evidence is accumulated, no fragment is returned.
C38_VoidSelection ==
    Truthy(state.selected_topic) /\ CatalogGet(state.selected_topic) = ""

C38_VoidSelectionIsInert ==
    [][C38_VoidSelection =>
          /\ state' = state
          /\ (pc = "idle" /\ pc' # "idle") =>
                /\ last'.exc = ""
                /\ last'.prompt = base
                /\ last'.update = <<>>
                /\ last'.ops = <<>>
                /\ router' = router /\ retriever' = retriever /\ embedder' = embedder]_vars

\* a call with a user message to route, on a restored state that selects a
\* label without fragment
C38_Witness ==
    /\ Returned
    /\ last.state_in.selected_topic = "ghost"
    /\ state = last.state_in
    /\ Truthy(_last_user_message(last.messages))
    /\ last.base = "BASE" /\ last.prompt = "BASE"
    /\ last.update = <<>> /\ last.ops = <<>>
    /\ ~router.retriever

\* C39: Conversation.from_dict(c.to_dict()) has the topic_scores,
\* topic_selected and topic_turns of c; and from_dict on a malformed payload
\* does not raise: it drops the score entries with a non-string key or a
\* non-numeric value, restores a non-string topic_selected as None and an
\* unparseable topic_turns as 0.
C39_Numeric(v) ==
    \/ v.type \in {"int", "float", "bool"}
    \/ v.type = "str" /\ v.text \in {"2", " 2 ", "1.5", "inf"}

C39_ParseableTurns(v) ==
    \/ v.type \in {"int", "bool"}
    \/ v.type = "float" /\ v.text # "nan"
    \/ v.type = "str" /\ v.text \in {"2", " 2 "}

C39_KeptItems(items) ==
    SelectSeq(items, LAMBDA item : item.key.type = "str" /\ C39_Numeric(item.value))

C39_Restored ==
    LET payload == last.payload[1]
        conv == last.conv[1]
        items == IF payload.topic_scores = <<>> \/ ~payload.topic_scores[1].is_dict THEN <<>>
                 ELSE C39_KeptItems(payload.topic_scores[1].items)
    IN  /\ Len(conv.topic_scores) = Len(items)
        /\ \A i \in 1..Len(items) :
              /\ conv.topic_scores[i].key = items[i].key
              /\ conv.topic_scores[i].value = float(items[i].value).value
        /\ conv.topic_selected =
              (IF payload.topic_selected # <<>> /\ payload.topic_selected[1].type = "str"
               THEN payload.topic_selected[1] ELSE PyNone)
        /\ payload.topic_turns = <<>> => conv.topic_turns = PyInt(0)
        /\ (payload.topic_turns # <<>> /\ ~C39_ParseableTurns(payload.topic_turns[1]))
              => conv.topic_turns = PyInt(0)
        /\ (payload.topic_turns # <<>> /\ C39_ParseableTurns(payload.topic_turns[1]))
              => conv.topic_turns = int(payload.topic_turns[1]).value

C39_TopicStateRoundTrips ==
    /\ pc = "round_trip" => last.exc = "" /\ last.conv = last.stored
    /\ pc = "restored" => last.exc = "" /\ C39_Restored

====
